---- MODULE Spec2Model ----
(***************************************************************************)
(* KnowZero agent orchestration: one learning session served by            *)
(* AgentStreamProcessor.stream(), which drives the LangGraph pipeline      *)
(* input_normalizer -> intent_agent -> {chitchat | navigator | route}      *)
(* -> {navigator | planner | content_agent} -> post_process -> END,        *)
(* translating graph events into client events and persistence.           *)
(*                                                                         *)
(* Encoding of Python values:                                              *)
(*   - an optional dict is a sequence of length 0 (None) or 1 (the dict);  *)
(*   - a document / message id is a natural number, 0 standing for the     *)
(*     falsy ids None and 0 (the code only ever tests ids for truthiness); *)
(*   - a missing string is "None".                                         *)
(***************************************************************************)
EXTENDS Integers, Sequences, FiniteSets, TLC

\* ------------------------------------------------------------------ bounds
MaxTurns == 2           \* turns served in the session
MaxChunks == 2          \* chunks the completion service streams in one generation
MaxInternalChunks == 1  \* chunks streamed by model calls outside content_agent, per turn
MaxSessionTurns == 3  \* turns started on the connections of one session
MaxDocCalls == 4  \* calls made to document_service
MaxRoadmaps == 4  \* roadmaps created
MaxMilestones == 3  \* entries of the milestone list a model reply carries
MaxEntityCalls == 2  \* calls made to upsert_entities
MaxNames == 3  \* entity names in one call's list
MaxPhrases == 2  \* phrases in one message
MaxExplainDocs == 2  \* documents of the session of a comment turn
MaxNavDocs == 2  \* rows of the documents table a navigation reads
MaxFaults == 1  \* environment faults per turn: failed database operation, disconnect, cancel

\* ------------------------------------------------------------- vocabulary
IntentTypes == {"new_topic", "follow_up", "comparison", "question", "question_practical",
                "optimize_content", "navigate", "plan", "chitchat"}
\* intent.py:179 and classifier.py:210 store whatever string the client hint or the
\* model reply carries; "other" stands for any string outside the closed set.
StoredIntentTypes == IntentTypes \cup {"other"}
Actions == {"generate_new", "update_doc", "navigate", "plan"}
Modes == {"standard", "roadmap_learning", "roadmap_generate", "roadmap_modify",
          "explain_selection", "comparison"}
Nodes == {"input_normalizer", "intent_agent", "route_agent", "content_agent",
          "navigator_agent", "chitchat_agent", "planner_agent", "post_process"}
\* nodes whose body calls the completion service
LLMNodes == {"intent_agent", "route_agent", "chitchat_agent", "planner_agent",
             "content_agent", "post_process"}

NoneVal == << >>
Some(x) == << x >>
IsSet(o) == o # << >>
Get(o) == o[1]

VARIABLES
    pc,             \* position of stream(): idle, initialize, persist_user_input,
                    \* process_events, finalize, except, cleanup, done
    turn,           \* turns started so far
    ws_open,        \* the client connection still accepts pushes
    agent_status,   \* Session.agent_status as committed in the database
    documents,      \* committed documents of the session, newest first
    placeholder,    \* this turn's placeholder message row
    state,          \* AgentState of the turn
    node,           \* graph node the run is at
    phase,          \* start (on_chain_start pending), running, end (on_chain_end pending)
    visited,        \* nodes whose body has run in this turn, in order
    ctx,            \* StreamContext
    client,         \* events pushed to the client in this turn, in order
    llm_stream,     \* chunks the completion service streamed this turn: <<node, chunk>>
    legacy_tokens,  \* what routes/websocket.py forwards for the same model events
    outcome,        \* how the try body of stream() ended
    status_writes,  \* agent-status writes of this turn: committed, or failed and swallowed
    faults,         \* environment faults injected in this turn
    pp_calls,       \* the enrichment calls of post_process: pending, or result and rank
    enriched,       \* enrichment results of this turn's document committed so far
    generation,     \* how this turn's generation call ended inside content_agent_node
    checkpoint,     \* MemorySaver: the values stored for the session's thread id
    runs,           \* per connection of the session: its turn in flight
    session_turns,  \* turns started on any connection of the session
    doc_rows,       \* table documents: row id -> content and version
    doc_versions,   \* table document_versions, in insertion order
    doc_calls,      \* the calls made to document_service so far, with their outcome
    roadmaps,       \* table roadmaps as committed, by row id
    creating,       \* per caller: its create_roadmap call in flight
    planning,       \* a roadmap turn: the LLM reply, the planner's roadmap, what finalize
                    \* stored and what it sent
    plan,           \* a planner turn of session s1 over the roadmaps table
    entity_rows,    \* table entities as committed, by row id
    entity_links,   \* table entity_document_links as committed
    entity_calls,   \* the calls made to upsert_entities so far, with their outcome
    classified,     \* the last call of the intent classifier: its inputs and its result
    entity_click,   \* an entity-sourced turn: the tables it read and the intent it stored
    explain,        \* a topic resolution for explain_selection: its inputs and its result
    json_call,      \* a call of parse_llm_json_response: its input and its outcome
    navigation      \* a run of navigator_agent_node: the table it read and the target it stored

vars == << pc, turn, ws_open, agent_status, documents, placeholder, state, node, phase,
           visited, ctx, client, llm_stream, legacy_tokens, outcome, status_writes,
           faults, pp_calls, enriched, generation, checkpoint, runs, session_turns,
           doc_rows, doc_versions, doc_calls, roadmaps, creating, planning, plan,
           entity_rows, entity_links, entity_calls, classified, entity_click, explain, json_call, navigation >>

\* the chat turn of one connection, as stream() runs it
chatVars == << pc, turn, ws_open, agent_status, documents, placeholder, state, node, phase,
               visited, ctx, client, llm_stream, legacy_tokens, outcome, status_writes,
               faults, pp_calls, enriched, generation >>
\* the connections of a session and the checkpointer they share
sessionVars == << checkpoint, runs, session_turns >>
\* document_service and its tables
docVars == << doc_rows, doc_versions, doc_calls >>
\* the components modelled on their own, below the chat turn
\* roadmap_service, its table and its callers
roadmapVars == << roadmaps, creating >>
\* entity_service and its tables
entityVars == << entity_rows, entity_links, entity_calls >>
serviceVars == << sessionVars, docVars, roadmapVars, planning, plan, entityVars, classified,
                 entity_click, explain, json_call, navigation >>
\* the frame of each component's steps: everything but its own variables
notSessionVars == << chatVars, docVars, roadmapVars, planning, plan, entityVars, classified,
    entity_click, explain, json_call, navigation >>
notDocVars == << chatVars, sessionVars, roadmapVars, planning, plan, entityVars, classified,
    entity_click, explain, json_call, navigation >>
notRoadmapVars == << chatVars, sessionVars, docVars, planning, plan, entityVars, classified,
    entity_click, explain, json_call, navigation >>
notPlanning == << chatVars, sessionVars, docVars, roadmapVars, plan, entityVars, classified,
    entity_click, explain, json_call, navigation >>
notEntityVars == << chatVars, sessionVars, docVars, roadmapVars, planning, plan, classified,
    entity_click, explain, json_call, navigation >>
notClassified == << chatVars, sessionVars, docVars, roadmapVars, planning, plan, entityVars,
                   entity_click, explain, json_call, navigation >>
\* an entity click reads the entity tables
notEntityClick == << chatVars, sessionVars, docVars, roadmapVars, planning, plan, entityVars,
                    classified, explain, json_call, navigation >>
notExplain == << chatVars, sessionVars, docVars, roadmapVars, planning, plan, entityVars,
                classified, entity_click, json_call, navigation >>
notParsed == << chatVars, sessionVars, docVars, roadmapVars, planning, plan, entityVars,
               classified, entity_click, explain, navigation >>
notNavigation == << chatVars, sessionVars, docVars, roadmapVars, planning, plan, entityVars,
                   classified, entity_click, explain, json_call >>
\* a planner turn writes the roadmaps table
notPlan == << chatVars, sessionVars, docVars, creating, planning, entityVars, classified,
    entity_click, explain, json_call, navigation >>
\* what no step of a running chat turn changes, content_agent_node apart
turnFrame == << turn, generation, serviceVars >>

\* ---------------------------------------------------------------- helpers
Range(s) == { s[i] : i \in 1..Len(s) }
SelectNode(s, n) == SelectSeq(s, LAMBDA e : e[1] = n)
DocIds == { d.id : d \in Range(documents) }

\* services/websocket_event_handler.py StreamContext.__init__
NewStreamContext ==
    [ placeholder_message_id |-> 0, accumulated_content |-> << >>, doc_id |-> 0 ]

\* api/routes/websocket.py websocket_endpoint: the state built for a turn. The current
\* document is the newest document of the session and is loaded into "document".
\* current_roadmap is context supplied by the caller of the streaming service.
InitialState(docs, roadmap) ==
    [ intent |-> NoneVal,
      routing_decision |-> NoneVal,
      current_roadmap |-> roadmap,
      current_doc_id |-> IF docs = << >> THEN 0 ELSE docs[1].id,
      recent_docs |-> [ i \in 1..Len(docs) |-> docs[i].id ],
      document |-> IF docs = << >> THEN NoneVal
                   ELSE Some([ id |-> docs[1].id, content |-> docs[1].content,
                               version |-> docs[1].version, entities |-> FALSE,
                               milestone_id |-> NoneVal ]),
      follow_up_questions |-> FALSE,
      navigation_target |-> NoneVal,
      response |-> NoneVal,
      roadmap |-> NoneVal,
      roadmap_only |-> FALSE,
      messages |-> << >>,
      error |-> "None" ]

\* agent/nodes/content.py post_process_node: the three calls handed to asyncio.gather
EnrichmentCalls == {"entities", "follow_ups", "milestone"}
NoCalls == [ c \in EnrichmentCalls |-> NoneVal ]

\* api/routes/websocket.py websocket_endpoint: any number of connections may be open
\* on /{session_id}; ConnectionManager.connect accepts each and refuses none.
Connections == {"c1", "c2"}
\* agent/state.py AgentState: the keys of the graph's state schema that finalize
\* reads. The checkpoint holds a value for these and for no other key.
SchemaKeys == {"error", "navigation_target", "document"}
\* the keys AgentStreamProcessor.finalize reads from result_state
ResultKeys == SchemaKeys \cup {"roadmap", "response"}
NoResults == [ k \in ResultKeys |-> NoneVal ]
\* agent/graph.py get_checkpointer: one MemorySaver for the process, empty at start
NoCheckpoint == [ k \in SchemaKeys |-> NoneVal ]
\* the callers of create_roadmap that can be in flight at once: finalize of a turn
\* (through persist_roadmap) and the roadmaps route, each with its own database session
Callers == {"t1", "t2"}
SessionIds == {"s1", "s2"}
NotCreating == [ pc |-> "idle", session_id |-> "s1", active_roadmaps |-> { } ]
NotPlanning == [ pc |-> "idle", method |-> "none", reply |-> << >>, milestones |-> << >>,
                 stored |-> << >>, sent |-> << >> ]
NoPlan == [ pc |-> "idle", mode |-> "none", current_roadmap |-> NoneVal,
            structured |-> NoneVal, fallback |-> NoneVal, roadmap |-> NoneVal,
            error |-> "None", before |-> << >>, events |-> << >> ]
NoRun == [ turn |-> 0, pc |-> "idle", final_result |-> NoResults, result_state |-> NoResults ]
\* no reply: the completion service was given nothing to answer
NoReply == [ kind |-> "none", intent_type |-> NoneVal, target |-> NoneVal ]
NotNavigated == [ pc |-> "idle", session_id |-> "s1", table |-> << >>,
                  routing_decision |-> NoneVal, intent |-> NoneVal, lookup |-> "none",
                  raised |-> FALSE, navigation_target |-> NoneVal ]
NotParsed == [ pc |-> "idle", content |-> << >>,
               result |-> [ raised |-> FALSE, error |-> "", strategy |-> "none",
                            value |-> << >> ] ]
NotExplained == [ pc |-> "idle", via |-> "none", docs |-> << >>, load |-> "none",
                  document_id |-> 0, selected_text |-> "", available_docs |-> << >>,
                  document |-> NoneVal, target |-> "", raw_message |-> "", doc_topic |-> "" ]
NoClick == [ pc |-> "idle", session_id |-> "s1", entity_name |-> "a", lookup |-> "none",
             entities |-> << >>, links |-> << >>, intent |-> NoneVal, raised |-> FALSE ]
NotClassified == [ pc |-> "idle", source |-> "none", message |-> << >>, intent_hint |-> NoneVal,
                   found_doc |-> 0, llm |-> FALSE, use_llm |-> FALSE, reply |-> NoReply,
                   intent |-> NoneVal, llm_invoked |-> FALSE, raised |-> FALSE ]

Init ==
    /\ pc = "idle"
    /\ turn = 0
    /\ ws_open = TRUE
    /\ agent_status = "idle"
    /\ documents = << >>
    /\ placeholder = "absent"
    /\ state = InitialState(<< >>, NoneVal)
    /\ node = "none"
    /\ phase = "none"
    /\ visited = << >>
    /\ ctx = NewStreamContext
    /\ client = << >>
    /\ llm_stream = << >>
    /\ legacy_tokens = << >>
    /\ outcome = "none"
    /\ status_writes = { }
    /\ faults = 0
    /\ pp_calls = NoCalls
    /\ enriched = { }
    /\ generation = "none"
    /\ checkpoint = NoCheckpoint
    /\ runs = [ c \in Connections |-> NoRun ]
    /\ session_turns = 0
    /\ doc_rows = << >>
    /\ doc_versions = << >>
    /\ doc_calls = << >>
    /\ roadmaps = << >>
    /\ creating = [ t \in Callers |-> NotCreating ]
    /\ planning = NotPlanning
    /\ plan = NoPlan
    /\ entity_rows = << >>
    /\ entity_links = << >>
    /\ entity_calls = << >>
    /\ classified = NotClassified
    /\ entity_click = NoClick
    /\ explain = NotExplained
    /\ json_call = NotParsed
    /\ navigation = NotNavigated

\* ------------------------------------------------- client channel and errors
Event(t, d) == [ type |-> t, data |-> d ]
Push(t, d) == Append(client, Event(t, d))

\* An ordinary exception leaves the try body of stream() for its except block;
\* a BaseException (CancelledError, GeneratorExit) skips it and reaches finally.
RaiseError == pc' = "except" /\ outcome' = "error"
RaiseCancel == pc' = "cleanup" /\ outcome' = "cancelled"

\* services/session_service.py update_agent_status + commit: the committed status
\* after an attempt to write `status`; the write raises when the database fails.
update_agent_status(status, dbok) == IF dbok THEN status ELSE agent_status

graphVars == << state, node, phase, visited >>
dbVars == << agent_status, documents, placeholder, status_writes, enriched >>
streamVars == << llm_stream, legacy_tokens, pp_calls >>

\* outcomes of a database operation the environment may still choose, and the
\* bookkeeping of the choice
DbOutcomes == IF faults < MaxFaults THEN BOOLEAN ELSE {TRUE}
Fault(ok) == faults' = IF ok THEN faults ELSE faults + 1

\* ------------------------------------------------------------ turn skeleton
\* api/routes/websocket.py websocket_endpoint: a request arrives, the turn state is
\* built from the session's documents and a processor is created for it. A turn on
\* a closed connection arrives on a new connection.
StartTurnWith(f) ==
    /\ pc \in {"idle", "done"}
    /\ turn < MaxTurns
    /\ \E roadmap \in {NoneVal, Some([ version |-> 1, origin |-> "stored" ])} :
          state' = InitialState(documents, roadmap)
    /\ turn' = turn + 1
    /\ pc' = "initialize"
    /\ ws_open' = TRUE
    /\ placeholder' = "absent"
    /\ node' = "none" /\ phase' = "none" /\ visited' = << >>
    /\ ctx' = NewStreamContext
    /\ client' = << >> /\ llm_stream' = << >> /\ legacy_tokens' = << >>
    /\ outcome' = "none" /\ status_writes' = { } /\ faults' = f
    /\ pp_calls' = NoCalls /\ enriched' = { } /\ generation' = "none"
    /\ UNCHANGED << agent_status, documents, serviceVars >>

StartTurn == StartTurnWith(0)
\* a turn in an environment that injects no fault
StartReliableTurn == StartTurnWith(MaxFaults)

\* AgentStreamProcessor.initialize: a failed status write is logged and swallowed,
\* then the thinking indicator is pushed.
initialize ==
    /\ pc = "initialize"
    /\ \E dbok \in DbOutcomes :
          /\ Fault(dbok)
          /\ agent_status' = update_agent_status("running", dbok)
          /\ status_writes' = status_writes \cup {IF dbok THEN "running" ELSE "running_failed"}
    /\ IF ws_open
          THEN client' = Push("thinking", << >>) /\ pc' = "persist_user_input"
               /\ outcome' = outcome
          ELSE client' = client /\ RaiseError
    /\ UNCHANGED << turnFrame, ws_open, documents, placeholder, enriched, graphVars, ctx,
                    streamVars >>

\* AgentStreamProcessor.persist_user_input; on success process_events starts the graph
\* at its entry point.
persist_user_input ==
    /\ pc = "persist_user_input"
    /\ \E dbok \in DbOutcomes :
          /\ Fault(dbok)
          /\ IF dbok
               THEN pc' = "process_events" /\ node' = "input_normalizer" /\ phase' = "start"
                    /\ outcome' = outcome
               ELSE RaiseError /\ UNCHANGED << node, phase >>
    /\ UNCHANGED << turnFrame, ws_open, dbVars, state, visited, ctx, client, streamVars >>

\* AgentStreamProcessor.stream, except Exception: push an error event (the push itself
\* raises on a closed connection; finally still runs).
handle_exception ==
    /\ pc = "except"
    /\ client' = IF ws_open THEN Push("error", << "stream" >>) ELSE client
    /\ pc' = "cleanup"
    /\ UNCHANGED << turnFrame, ws_open, dbVars, graphVars, ctx, streamVars, outcome, faults >>

\* a finally block that leaves the status alone
cleanup_without_reset ==
    /\ pc = "cleanup"
    /\ pc' = "done"
    /\ outcome' = IF outcome = "none" THEN "ok" ELSE outcome
    /\ UNCHANGED << turnFrame, ws_open, dbVars, graphVars, ctx, client, streamVars, faults >>

\* AgentStreamProcessor.cleanup (the finally block of stream): a failed status write
\* is logged and swallowed.
cleanup ==
    /\ pc = "cleanup"
    /\ \E dbok \in DbOutcomes :
          /\ Fault(dbok)
          /\ agent_status' = update_agent_status("idle", dbok)
          /\ status_writes' = status_writes \cup {IF dbok THEN "idle" ELSE "idle_failed"}
    /\ pc' = "done"
    /\ outcome' = IF outcome = "none" THEN "ok" ELSE outcome
    /\ UNCHANGED << turnFrame, ws_open, documents, placeholder, enriched, graphVars, ctx, client,
                    streamVars >>

\* The client drops the connection; every later push raises.
ClientDisconnect ==
    /\ pc \in {"initialize", "persist_user_input", "process_events", "finalize"}
    /\ ws_open /\ faults < MaxFaults
    /\ ws_open' = FALSE /\ faults' = faults + 1
    /\ UNCHANGED << pc, turnFrame, dbVars, graphVars, ctx, client, streamVars, outcome >>

\* The task running stream() is cancelled at a suspension point of the try body.
Cancel ==
    /\ pc \in {"initialize", "persist_user_input", "process_events", "finalize"}
    /\ faults < MaxFaults /\ faults' = faults + 1
    /\ RaiseCancel
    /\ UNCHANGED << turnFrame, ws_open, dbVars, graphVars, ctx, client, streamVars >>

\* ---------------------------------------------------------------- router
\* agent/nodes/route.py RouteDecision: action and mode are free strings of the model
\* reply ("other" stands for any string outside the documented sets); target_doc_id
\* is optional.
LLMDecisions ==
    [ action : Actions \cup {"other"}, mode : Modes \cup {"other"},
      target_doc_id : {0, 1}, reasoning : { << "llm" >> } ]

\* the replies and intents drawn in runs that also explore streaming and faults: one
\* reply per edge out of the router, with and without a navigation target
SampleLLMDecisions ==
    { d \in LLMDecisions :
        \/ d.action \in {"generate_new", "update_doc"} /\ d.mode = "standard" /\ d.target_doc_id = 0
        \/ d.action = "plan" /\ d.mode = "roadmap_modify" /\ d.target_doc_id = 0
        \/ d.action = "navigate" /\ d.mode = "standard" }
SampleIntentTypes == {"new_topic", "question", "navigate", "chitchat"}

\* agent/nodes/route.py OBVIOUS_DECISIONS, keyed by (intent_type, second component);
\* the second component is the Python value False, "has_current_doc" or None.
OBVIOUS_DECISIONS ==
    ( << "new_topic", "False" >> :>
        [ action |-> "generate_new", mode |-> "standard", target_doc_id |-> 0,
          reasoning |-> << "rule_new_topic" >> ] )
    @@ ( << "follow_up", "has_current_doc" >> :>
        [ action |-> "update_doc", mode |-> "expand", target_doc_id |-> 0,
          reasoning |-> << "rule_follow_up_doc" >> ] )
    @@ ( << "follow_up", "None" >> :>
        [ action |-> "generate_new", mode |-> "standard", target_doc_id |-> 0,
          reasoning |-> << "rule_follow_up" >> ] )
    @@ ( << "comparison", "None" >> :>
        [ action |-> "generate_new", mode |-> "comparison", target_doc_id |-> 0,
          reasoning |-> << "rule_comparison" >> ] )
    @@ ( << "optimize_content", "None" >> :>
        [ action |-> "generate_new", mode |-> "explain_selection", target_doc_id |-> 0,
          reasoning |-> << "rule_optimize" >> ] )

ObviousGet(key) ==
    IF key \in DOMAIN OBVIOUS_DECISIONS THEN Some(OBVIOUS_DECISIONS[key]) ELSE NoneVal

\* the predicate both the fast-path skip and the first-topic override compute
IsFirstTopic(intent_type, current_roadmap, recent_docs) ==
    intent_type = "new_topic" /\ ~IsSet(current_roadmap) /\ recent_docs = << >>

\* agent/nodes/route.py _try_fast_route
try_fast_route(intent_type, current_doc_id, current_roadmap, recent_docs) ==
    IF IsFirstTopic(intent_type, current_roadmap, recent_docs) THEN NoneVal
    ELSE IF intent_type = "follow_up"
      THEN ObviousGet(<< "follow_up", IF current_doc_id # 0 THEN "has_current_doc" ELSE "None" >>)
    ELSE IF intent_type \in {"new_topic", "comparison", "optimize_content"}
      THEN ObviousGet(<< intent_type, "None" >>)
    ELSE NoneVal

\* a fallback rule that does not look at the roadmap
fallback_routing_ignoring_roadmap(intent_type, has_roadmap) ==
    [ action |-> "generate_new", mode |-> "standard", target_doc_id |-> 0,
      reasoning |-> << "fallback_default" >> ]

\* agent/nodes/route.py _fallback_routing
fallback_routing(intent_type, has_roadmap) ==
    IF intent_type = "plan" /\ ~has_roadmap
      THEN [ action |-> "plan", mode |-> "roadmap_generate", target_doc_id |-> 0,
             reasoning |-> << "fallback_plan" >> ]
      ELSE [ action |-> "generate_new",
             mode |-> IF has_roadmap THEN "roadmap_learning" ELSE "standard",
             target_doc_id |-> 0, reasoning |-> << "fallback_default" >> ]

\* agent/nodes/route.py _llm_route_decision: the validated model decision, or the
\* fallback rule when the call or the validation fails (llm = NoneVal).
llm_route_decision(llm, intent_type, has_roadmap) ==
    IF IsSet(llm) THEN Get(llm) ELSE fallback_routing(intent_type, has_roadmap)

\* a router without the first override
without_first_topic_override(d, intent_type, current_roadmap, recent_docs) == d

\* agent/nodes/route.py route_agent_node, first override
first_topic_override(d, intent_type, current_roadmap, recent_docs) ==
    IF IsFirstTopic(intent_type, current_roadmap, recent_docs)
      THEN [ d EXCEPT !.action = "plan", !.mode = "roadmap_generate",
                      !.reasoning = << "first_topic_prefix" >> \o d.reasoning ]
      ELSE d

\* a router without the second override
without_navigate_override(d) == d

\* agent/nodes/route.py route_agent_node, second override
navigate_override(d) ==
    IF d.action = "navigate" /\ d.target_doc_id = 0
      THEN [ d EXCEPT !.action = "generate_new",
                      !.reasoning = << "navigate_prefix" >> \o d.reasoning ]
      ELSE d

WithMethod(d, m) ==
    [ action |-> d.action, mode |-> d.mode, target_doc_id |-> d.target_doc_id,
      reasoning |-> d.reasoning, method |-> m ]

IntentTypeOf(s) == IF IsSet(s.intent) THEN Get(s.intent).intent_type ELSE "question"

\* agent/nodes/route.py route_agent_node: the routing decision stored for state s
\* when the slow-path model call yields llm
route_agent_node(s, llm) ==
    LET it == IntentTypeOf(s)
        fast == try_fast_route(it, s.current_doc_id, s.current_roadmap, s.recent_docs)
        slow == navigate_override(
                  first_topic_override(
                    llm_route_decision(llm, it, IsSet(s.current_roadmap)),
                    it, s.current_roadmap, s.recent_docs))
    IN  IF IsSet(fast) THEN WithMethod(Get(fast), "rule") ELSE WithMethod(slow, "llm")

\* ---------------------------------------------------------- graph edges
\* an edge that sends every intent to the router
route_every_intent_to_router(s) == "route_agent"

\* agent/nodes/route.py route_by_intent
route_by_intent(s) ==
    LET it == IntentTypeOf(s)
    IN  IF it = "chitchat" THEN "chitchat_agent"
        ELSE IF it = "navigate" THEN "navigator_agent"
        ELSE "route_agent"

\* an edge that sends every decision to the content generator
route_every_decision_to_content(s) == "content_agent"

\* agent/nodes/route.py route_by_decision
route_by_decision(s) ==
    LET action == IF IsSet(s.routing_decision) THEN Get(s.routing_decision).action
                  ELSE "generate_new"
    IN  IF action = "navigate" THEN "navigator_agent"
        ELSE IF action = "plan" THEN "planner_agent"
        ELSE "content_agent"

\* an edge that always generates a document after planning
always_generate_document(s) == "content_agent"

\* agent/graph.py _should_generate_document
should_generate_document(s) == IF s.roadmap_only THEN "END" ELSE "content_agent"

\* an edge that ends the turn after every navigation
always_end_after_navigator(s) == "END"

\* an edge that sends a navigation without a document back to the router
back_to_router_after_navigator(s) ==
    LET nav_type == IF IsSet(s.navigation_target) THEN Get(s.navigation_target).type ELSE ""
    IN  IF nav_type = "document" THEN "END" ELSE "route_agent"

\* agent/graph.py _route_after_navigator
route_after_navigator(s) ==
    LET nav_type == IF IsSet(s.navigation_target) THEN Get(s.navigation_target).type ELSE ""
    IN  IF nav_type = "document" THEN "END" ELSE "content_agent"

\* agent/graph.py create_knowzero_graph: the node that follows n in state s
NextNode(n, s) ==
    CASE n = "input_normalizer" -> "intent_agent"
      [] n = "intent_agent" -> route_by_intent(s)
      [] n = "route_agent" -> route_by_decision(s)
      [] n = "planner_agent" -> should_generate_document(s)
      [] n = "content_agent" -> "post_process"
      [] n = "post_process" -> "END"
      [] n = "navigator_agent" -> route_after_navigator(s)
      [] n = "chitchat_agent" -> "END"

\* ------------------------------------------------------------ graph nodes
Running(n) == pc = "process_events" /\ node = n /\ phase = "running"
NodeDone == phase' = "end" /\ visited' = Append(visited, node) /\ UNCHANGED << pc, node, outcome >>
nodeFrame == << turnFrame, ws_open, dbVars, ctx, client, streamVars, faults >>

\* agent/nodes/input_normalizer.py input_normalizer_node: fills defaults into fields
\* the turn state already carries in normal form.
InputNormalizerNode ==
    /\ Running("input_normalizer")
    /\ state' = state
    /\ NodeDone
    /\ UNCHANGED nodeFrame

\* agent/nodes/intent.py intent_agent_node: the stored intent; an entity click on an
\* entity with a linked document yields navigate carrying that document's id.
IntentAgentNodeOver(types) ==
    /\ Running("intent_agent")
    /\ \E it \in types, tid \in {0} \cup DocIds :
          /\ tid # 0 => it = "navigate"
          /\ state' = [ state EXCEPT !.intent = Some([ intent_type |-> it, target_doc_id |-> tid ]) ]
    /\ NodeDone
    /\ UNCHANGED nodeFrame

IntentAgentNode == IntentAgentNodeOver(SampleIntentTypes)
IntentAgentNodeAnyType == IntentAgentNodeOver(StoredIntentTypes)

\* agent/nodes/route.py route_agent_node
RouteAgentNodeOver(replies) ==
    /\ Running("route_agent")
    /\ \E llm \in {NoneVal} \cup { Some(d) : d \in replies } :
          state' = [ state EXCEPT !.routing_decision = Some(route_agent_node(state, llm)) ]
    /\ NodeDone
    /\ UNCHANGED nodeFrame

RouteAgentNode == RouteAgentNodeOver(SampleLLMDecisions)
RouteAgentNodeAnyReply == RouteAgentNodeOver(LLMDecisions)

\* agent/nodes/navigator.py navigator_agent_node, lines 18-22: the id looked up
navigator_target_doc_id(s) ==
    IF Get(s.routing_decision).target_doc_id # 0 THEN Get(s.routing_decision).target_doc_id
    ELSE Get(s.intent).target_doc_id

\* agent/nodes/navigator.py navigator_agent_node, lines 39-53: the navigation target
\* for a lookup result (0: nothing found, or the lookup raised and was swallowed)
navigation_target_for(found) ==
    IF found # 0 THEN [ type |-> "document", document_id |-> found ]
    ELSE [ type |-> "not_found", document_id |-> 0 ]

\* agent/nodes/navigator.py navigator_agent_node. state.get("routing_decision", {})
\* yields None when the key is present with value None (the router did not run), and
\* None.get raises AttributeError outside the try block.
NavigatorAgentNode ==
    /\ Running("navigator_agent")
    /\ visited' = Append(visited, node)
    /\ IF ~IsSet(state.routing_decision)
         THEN RaiseError /\ UNCHANGED << state, node, phase >>
         ELSE /\ \E found \in {0} \cup DocIds :
                   /\ ( navigator_target_doc_id(state) # 0
                           => found \in {0, navigator_target_doc_id(state)} )
                   /\ state' = [ state EXCEPT
                                   !.navigation_target = Some(navigation_target_for(found)) ]
              /\ phase' = "end"
              /\ UNCHANGED << pc, node, outcome >>
    /\ UNCHANGED nodeFrame

\* agent/nodes/chitchat.py chitchat_agent_node: a model failure is replaced by a canned reply
ChitchatAgentNode ==
    /\ Running("chitchat_agent")
    /\ state' = [ state EXCEPT !.response = Some([ type |-> "chat" ]) ]
    /\ NodeDone
    /\ UNCHANGED nodeFrame

\* agent/nodes/planner.py planner_agent_node: modify the current roadmap (ok: the
\* model call succeeded; otherwise the current roadmap comes back unchanged), or
\* generate one (structured output, manual parsing, or the minimal placeholder).
planner_agent_node(s, ok, origin) ==
    IF Get(s.routing_decision).mode = "roadmap_modify" /\ IsSet(s.current_roadmap)
      THEN [ s EXCEPT
               !.roadmap = IF ok THEN Some([ version |-> Get(s.current_roadmap).version + 1,
                                             origin |-> "modified" ])
                           ELSE s.current_roadmap,
               !.roadmap_only = TRUE ]
      ELSE [ s EXCEPT !.roadmap = Some([ version |-> 1, origin |-> origin ]),
                      !.roadmap_only = FALSE ]

PlannerAgentNode ==
    /\ Running("planner_agent")
    /\ \E ok \in BOOLEAN, origin \in {"structured", "fallback", "placeholder"} :
          state' = planner_agent_node(state, ok, origin)
    /\ NodeDone
    /\ UNCHANGED nodeFrame

\* chunks the generation call of content_agent has streamed so far
GeneratedChunks == SelectNode(llm_stream, "content_agent")

\* a generator that loses the first chunk of the stream
document_without_first_chunk(s, content) ==
    [ id |-> 0, content |-> IF content = << >> THEN << >> ELSE Tail(content),
      version |-> 1, entities |-> FALSE, milestone_id |-> NoneVal ]

\* agent/nodes/content.py _generate_document / _update_document: the document built
\* from the concatenated chunks
generated_document(s, content) ==
    LET action == IF IsSet(s.routing_decision) THEN Get(s.routing_decision).action
                  ELSE "generate_new"
    IN  IF action = "update_doc"
          THEN IF IsSet(s.document)
                 THEN [ Get(s.document) EXCEPT !.content = content,
                                               !.version = Get(s.document).version + 1 ]
                 ELSE [ id |-> 0, content |-> content, version |-> 2, entities |-> FALSE,
                        milestone_id |-> NoneVal ]
          ELSE [ id |-> 0, content |-> content, version |-> 1, entities |-> FALSE,
                 milestone_id |-> NoneVal ]

\* how _generate_document / _update_document can end inside content_agent_node
GenerationResults == {"returned", "Exception", "Exception_no_message", "GeneratorExit"}

\* a node whose handlers catch the interruption like any other exception
content_agent_node_swallowing(s, res) ==
    IF res = "returned"
      THEN [ raised |-> FALSE,
             state |-> [ s EXCEPT !.document = Some(generated_document(s, GeneratedChunks)),
                                  !.follow_up_questions = FALSE,
                                  !.messages = Append(@, "generated") ] ]
      ELSE [ raised |-> FALSE,
             state |-> [ s EXCEPT !.error = IF res = "Exception" THEN "generation failed" ELSE "",
                                  !.messages = Append(@, "apology") ] ]

\* agent/nodes/content.py content_agent_node: success stores the document and appends
\* a message; GeneratorExit is re-raised out of the node; any other exception is
\* caught, its message (possibly empty) stored in error and an apology appended,
\* and the node returns the state.
content_agent_node(s, res) ==
    CASE res = "returned" ->
           [ raised |-> FALSE,
             state |-> [ s EXCEPT !.document = Some(generated_document(s, GeneratedChunks)),
                                  !.follow_up_questions = FALSE,
                                  !.messages = Append(@, "generated") ] ]
      [] res = "GeneratorExit" ->
           [ raised |-> TRUE, state |-> s ]
      [] OTHER ->
           [ raised |-> FALSE,
             state |-> [ s EXCEPT !.error = IF res = "Exception" THEN "generation failed" ELSE "",
                                  !.messages = Append(@, "apology") ] ]

\* the content_agent node body runs: what leaves it is the node's result, handed to
\* the graph, or the exception, which ends process_events
ContentAgentNode ==
    /\ Running("content_agent")
    /\ visited' = Append(visited, node)
    /\ \E res \in GenerationResults :
          /\ generation' = res
          /\ IF content_agent_node(state, res).raised
               THEN RaiseCancel /\ UNCHANGED << state, phase >>
               ELSE /\ state' = content_agent_node(state, res).state
                    /\ phase' = "end" /\ UNCHANGED << pc, outcome >>
    /\ UNCHANGED << node, turn, serviceVars, ws_open, dbVars, ctx, client, streamVars, faults >>

\* agent/nodes/content.py post_process_node, lines 650-653
post_process_skipped(s) == ~IsSet(s.document) \/ Get(s.document).content = << >>

\* agent/nodes/content.py _extract_entities_llm, _generate_follow_ups,
\* _classify_milestone: what call c may return for state s. A failed entity or
\* follow-up call returns the empty list (FALSE); the classification returns no
\* milestone without a current roadmap, on failure, or when nothing matches.
EnrichmentResults(c, s) ==
    IF c = "milestone"
      THEN IF IsSet(s.current_roadmap) THEN {NoneVal, Some(0)} ELSE {NoneVal}
      ELSE BOOLEAN

\* a node that writes the results of gather into the wrong slots
post_process_node_crossed(s, entities, follow_ups, milestone) ==
    [ s EXCEPT !.document = Some([ Get(s.document) EXCEPT !.entities = follow_ups ]),
               !.follow_up_questions = entities ]

\* agent/nodes/content.py post_process_node, lines 667-679: the state written from
\* the results of gather, which come in argument order
post_process_node(s, entities, follow_ups, milestone) ==
    [ s EXCEPT !.document = Some([ Get(s.document) EXCEPT
                                     !.entities = entities,
                                     !.milestone_id = IF IsSet(milestone) THEN milestone ELSE @ ]),
               !.follow_up_questions = follow_ups ]

\* agent/nodes/content.py post_process_node as one step
PostProcessNode ==
    /\ Running("post_process")
    /\ IF post_process_skipped(state)
         THEN state' = state
         ELSE \E ents \in EnrichmentResults("entities", state),
                 fus \in EnrichmentResults("follow_ups", state),
                 ms \in EnrichmentResults("milestone", state) :
                state' = post_process_node(state, ents, fus, ms)
    /\ NodeDone
    /\ UNCHANGED nodeFrame

\* one of the calls gathered by post_process_node returns; the others are still in
\* flight. The rank is the position of the call in completion order.
EnrichmentCallReturns ==
    /\ Running("post_process") /\ ~post_process_skipped(state)
    /\ \E c \in EnrichmentCalls :
          /\ ~IsSet(pp_calls[c])
          /\ \E r \in EnrichmentResults(c, state) :
                pp_calls' = [ pp_calls EXCEPT ![c] =
                    Some([ result |-> r,
                           rank |-> Cardinality({ d \in EnrichmentCalls : IsSet(pp_calls[d]) }) + 1 ]) ]
    /\ UNCHANGED << pc, turnFrame, ws_open, dbVars, graphVars, ctx, client, llm_stream,
                    legacy_tokens, outcome, faults >>

\* a node in which a failed enrichment call escapes gather
PostProcessJoinRaising ==
    /\ Running("post_process")
    /\ visited' = Append(visited, node)
    /\ RaiseError
    /\ UNCHANGED << state, node, phase >>
    /\ UNCHANGED nodeFrame

\* gather returns once every call has returned and post_process_node writes the state
PostProcessJoin ==
    /\ Running("post_process")
    /\ IF post_process_skipped(state)
         THEN state' = state
         ELSE /\ \A c \in EnrichmentCalls : IsSet(pp_calls[c])
              /\ state' = post_process_node(state, Get(pp_calls["entities"]).result,
                                            Get(pp_calls["follow_ups"]).result,
                                            Get(pp_calls["milestone"]).result)
    /\ NodeDone
    /\ UNCHANGED nodeFrame

\* --------------------------------------------------------- event handlers
\* AgentStreamProcessor._on_chain_start: push node_start; when content_agent starts
\* and no placeholder exists yet, push document_start and create the placeholder row
\* (committed when its database session closes).
on_chain_start ==
    /\ pc = "process_events" /\ phase = "start"
    /\ IF ~ws_open
         THEN RaiseError /\ UNCHANGED << client, ctx, placeholder, phase, faults >>
         ELSE IF node = "content_agent" /\ ctx.placeholder_message_id = 0
           THEN /\ client' = client \o << Event("node_start", << node >>),
                                          Event("document_start", << >>) >>
                /\ \E dbok \in DbOutcomes :
                      /\ Fault(dbok)
                      /\ IF dbok
                           THEN /\ placeholder' = "generating"
                                /\ ctx' = [ ctx EXCEPT !.placeholder_message_id = 1 ]
                                /\ phase' = "running"
                                /\ UNCHANGED << pc, outcome >>
                           ELSE RaiseError /\ UNCHANGED << ctx, placeholder, phase >>
           ELSE /\ client' = Push("node_start", << node >>)
                /\ phase' = "running"
                /\ UNCHANGED << pc, outcome, ctx, placeholder, faults >>
    /\ UNCHANGED << turnFrame, ws_open, agent_status, documents, status_writes, enriched, state,
                    node, visited, streamVars >>

\* a handler that forwards the chunks of every node
forwards_every_token(n) == TRUE

\* AgentStreamProcessor._on_chat_model_stream: whether a chunk streamed inside
\* langgraph_node n is forwarded to the client and accumulated
forwards_token(n) == n # "post_process" /\ n = "content_agent"

\* api/routes/websocket.py stream_agent_response, on_chat_model_stream branch
legacy_forwards_token(n) == n = "content_agent"

\* A model call inside the running node streams its next chunk and the processor
\* handles the on_chat_model_stream event. A chunk is identified by the node whose
\* call streamed it and its position in that node's stream.
ChatModelStream ==
    /\ pc = "process_events" /\ phase = "running" /\ node \in LLMNodes
    /\ IF node = "content_agent"
         THEN Len(GeneratedChunks) < MaxChunks
         ELSE Len(llm_stream) - Len(GeneratedChunks) < MaxInternalChunks
    /\ LET chunk == << node, Len(SelectNode(llm_stream, node)) + 1 >>
       IN  /\ llm_stream' = Append(llm_stream, chunk)
           /\ legacy_tokens' = IF legacy_forwards_token(node) /\ ws_open
                                 THEN Append(legacy_tokens, chunk) ELSE legacy_tokens
           /\ IF forwards_token(node)
                THEN /\ ctx' = [ ctx EXCEPT !.accumulated_content = Append(@, chunk) ]
                     /\ IF ws_open
                          THEN client' = Push("document_token", << chunk >>)
                               /\ UNCHANGED << pc, outcome >>
                          ELSE client' = client /\ RaiseError
                ELSE UNCHANGED << ctx, client, pc, outcome >>
    /\ UNCHANGED << turnFrame, ws_open, dbVars, graphVars, faults, pp_calls >>

\* services/persistence_coordinator.py persist_document with
\* services/document_service.py create_document / update_document: the committed
\* documents after persisting doc (a document with an id is updated in place with a
\* new version, one without is created with version 1 and becomes the newest)
persist_document(docs, doc) ==
    IF doc.id # 0
      THEN [ i \in 1..Len(docs) |->
               IF docs[i].id = doc.id
                 THEN [ docs[i] EXCEPT !.content = doc.content, !.version = docs[i].version + 1 ]
                 ELSE docs[i] ]
      ELSE << [ id |-> Len(docs) + 1, content |-> doc.content, version |-> 1 ] >> \o docs

persisted_doc_id(docs, doc) == IF doc.id # 0 THEN doc.id ELSE Len(docs) + 1

\* services/persistence_coordinator.py update_placeholder_message with
\* services/message_service.py update_message_content: the placeholder row after the
\* update (a row that no longer exists is left alone); without a placeholder id a
\* completed card is created
update_placeholder_message(row, message_id) ==
    IF message_id = 0 THEN "completed"
    ELSE IF row = "generating" THEN "completed" ELSE row

\* services/message_service.py delete_message
delete_message(row) == IF row \in {"generating", "completed"} THEN "deleted" ELSE row

\* api/routes/sessions.py restore_session: the request deletes the document cards
\* of the session whose content says 'generating' and commits. It reads the
\* messages, the session and its documents and writes nothing else, so a restore
\* that finds no such card leaves every variable as it is.
restore_session ==
    /\ placeholder = "generating"
    /\ placeholder' = "deleted"
    /\ UNCHANGED << pc, turnFrame, ws_open, agent_status, documents, status_writes, enriched,
                    graphVars, ctx, client, streamVars, outcome, faults >>

\* the graph moves on after node's on_chain_end; after the last node the event
\* stream ends and process_events returns
Advance ==
    IF NextNode(node, state) = "END"
      THEN pc' = "finalize" /\ node' = "END" /\ phase' = "none"
      ELSE pc' = pc /\ node' = NextNode(node, state) /\ phase' = "start"

\* a handler that sends the document before its transaction is committed
content_agent_end_events_sent_first(doc_id, content, committed) ==
    << Event("node_end", << "content_agent" >>),
       Event("document", << doc_id, content >>),
       Event("progress", << >>) >>

\* AgentStreamProcessor._on_chain_end / _on_content_agent_end: the events pushed when
\* content_agent ends with a document. send_document_complete and send_progress come
\* after the database session has committed; a failed transaction raises before them.
content_agent_end_events(doc_id, content, committed) ==
    << Event("node_end", << "content_agent" >>) >>
    \o ( IF committed
           THEN << Event("document", << doc_id, content >>), Event("progress", << >>) >>
           ELSE << >> )

\* AgentStreamProcessor._on_post_process_end: the entities read from the node output
enrichment_entities(s) == IF IsSet(s.document) THEN Get(s.document).entities ELSE FALSE

\* AgentStreamProcessor._on_post_process_end: whether the write of enrichment c is
\* attempted for node output s. Each write has its own database session inside a
\* try block whose failure is logged and swallowed.
enrichment_written(s, c) ==
    CASE c = "milestone" -> IsSet(s.document) /\ IsSet(Get(s.document).milestone_id)
      [] c = "entities" -> enrichment_entities(s)
      [] c = "follow_ups" -> s.follow_up_questions

\* AgentStreamProcessor._on_chain_end with _on_content_agent_end and
\* _on_post_process_end. The document, the assistant message and the placeholder
\* update are one database session: committed together or rolled back together.
on_chain_end ==
    /\ pc = "process_events" /\ phase = "end"
    /\ IF ~ws_open
         THEN RaiseError
              /\ UNCHANGED << client, ctx, placeholder, documents, enriched, node, phase,
                              faults >>
         ELSE IF node = "content_agent" /\ IsSet(state.document)
           THEN \E dbok \in DbOutcomes :
                /\ Fault(dbok)
                /\ IF dbok /\ (Get(state.document).id = 0 \/ Get(state.document).id \in DocIds)
                    THEN /\ documents' = persist_document(documents, Get(state.document))
                         /\ placeholder' = update_placeholder_message(
                                               placeholder, ctx.placeholder_message_id)
                         /\ ctx' = [ ctx EXCEPT !.doc_id =
                                       persisted_doc_id(documents, Get(state.document)) ]
                         /\ client' = client \o content_agent_end_events(
                                           persisted_doc_id(documents, Get(state.document)),
                                           Get(state.document).content, TRUE)
                         /\ Advance /\ UNCHANGED << outcome, enriched >>
                    ELSE /\ client' = client \o content_agent_end_events(
                                           persisted_doc_id(documents, Get(state.document)),
                                           Get(state.document).content, FALSE)
                         /\ RaiseError
                         /\ UNCHANGED << ctx, placeholder, documents, enriched, node, phase >>
           ELSE IF node = "post_process" /\ ctx.doc_id # 0
             THEN /\ \E ok \in [ EnrichmentCalls -> BOOLEAN ] :
                       /\ \A c \in EnrichmentCalls : enrichment_written(state, c) \/ ok[c]
                       /\ enriched' = { c \in EnrichmentCalls :
                                           enrichment_written(state, c) /\ ok[c] }
                  /\ client' = client \o
                        << Event("node_end", << node >>),
                           Event("entities", << ctx.doc_id, enrichment_entities(state) >>),
                           Event("follow_ups", << ctx.doc_id, state.follow_up_questions >>) >>
                  /\ Advance
                  /\ UNCHANGED << outcome, ctx, placeholder, documents, faults >>
             ELSE /\ client' = Push("node_end", << node >>)
                  /\ Advance
                  /\ UNCHANGED << outcome, ctx, placeholder, documents, enriched, faults >>
    /\ UNCHANGED << turnFrame, ws_open, agent_status, status_writes, state, visited, streamVars >>

\* Python truthiness of the error slot
HasError(s) == s.error \notin {"None", ""}

\* AgentStreamProcessor.finalize, success part: the events pushed in order
finalize_events(s, accumulated) ==
    (IF IsSet(s.roadmap) THEN << Event("roadmap", << >>) >> ELSE << >>)
    \o (IF IsSet(s.navigation_target)
          THEN << Event("navigation", << Get(s.navigation_target).document_id >>) >>
          ELSE << >>)
    \o (IF IsSet(s.response) THEN << Event("content", << "response" >>) >> ELSE << >>)
    \o (IF accumulated # << >> /\ ~IsSet(s.document) /\ ~IsSet(s.response)
          THEN << Event("content", << "accumulated" >>) >> ELSE << >>)
    \o << Event("done", << >>) >>

\* the events of finalize_events pushed before its database write raises: the roadmap
\* is persisted before it is pushed, navigation and response after
finalize_events_before_db_failure(s) ==
    IF IsSet(s.roadmap) THEN << >>
    ELSE IF IsSet(s.navigation_target)
      THEN << Event("navigation", << Get(s.navigation_target).document_id >>) >>
    ELSE << Event("content", << "response" >>) >>

finalize_writes(s) == IsSet(s.roadmap) \/ IsSet(s.navigation_target) \/ IsSet(s.response)

\* whether finalize reaches a database operation
finalize_uses_db(s) ==
    IF HasError(s) THEN ctx.placeholder_message_id # 0 ELSE ws_open /\ finalize_writes(s)

\* AgentStreamProcessor.finalize with _handle_error, _handle_navigation and
\* _handle_response
finalize ==
    /\ pc = "finalize"
    /\ \E dbok \in DbOutcomes :
         /\ Fault(dbok)
         /\ dbok \/ finalize_uses_db(state)
         /\ IF HasError(state)
              THEN \* _handle_error: delete the placeholder, then push the error
                   IF ctx.placeholder_message_id # 0 /\ ~dbok
                     THEN RaiseError /\ UNCHANGED << placeholder, client >>
                     ELSE /\ placeholder' = IF ctx.placeholder_message_id # 0
                                              THEN delete_message(placeholder) ELSE placeholder
                          /\ IF ws_open
                               THEN client' = Push("error", << "generation" >>)
                                    /\ pc' = "cleanup" /\ UNCHANGED outcome
                               ELSE client' = client /\ RaiseError
              ELSE /\ UNCHANGED placeholder
                   /\ IF ~ws_open
                        THEN client' = client /\ RaiseError
                        ELSE IF finalize_writes(state) /\ ~dbok
                          THEN client' = client \o finalize_events_before_db_failure(state)
                               /\ RaiseError
                          ELSE client' = client \o finalize_events(state, ctx.accumulated_content)
                               /\ pc' = "cleanup" /\ UNCHANGED outcome
    /\ UNCHANGED << turnFrame, ws_open, agent_status, documents, status_writes, enriched,
                    graphVars, ctx, streamVars >>

\* ------------------------------------------- turns of one session's connections
\* Each connection of the endpoint runs its own receive loop and its own
\* AgentStreamProcessor; all of them pass thread_id = session_id to the one graph.

\* a value of a state key, as written by turn t's graph run
WrittenBy(t) == Some(t)

\* the state a node of turn t returns: the turn's own value under key k, None under
\* the others; k = "none" is a run that sets no result
NodeOutput(t, k) == [ x \in ResultKeys |-> IF x = k THEN WrittenBy(t) ELSE NoneVal ]

\* AgentStreamProcessor.finalize, lines 350-361: graph.aget_state(thread_id =
\* session_id).values, then every key of ctx.final_result that is missing or None
\* there is filled in from ctx.final_result
result_state(cp, final_result) ==
    [ k \in ResultKeys |->
        IF k \in SchemaKeys /\ IsSet(cp[k]) THEN cp[k] ELSE final_result[k] ]

\* websocket_endpoint builds the AgentState of a received message and
\* stream_agent_response runs it: process_events hands the state to
\* graph.astream_events, which writes every schema key of the input to the thread's
\* checkpoint.
ConnectionStartsTurn(c) ==
    /\ runs[c].pc \in {"idle", "done"}
    /\ session_turns < MaxSessionTurns
    /\ session_turns' = session_turns + 1
    /\ runs' = [ runs EXCEPT ![c] = [ turn |-> session_turns + 1, pc |-> "graph",
                                      final_result |-> NoResults,
                                      result_state |-> NoResults ] ]
    /\ checkpoint' = NoCheckpoint
    /\ UNCHANGED notSessionVars

\* a node of the connection's graph run returns: the checkpointer stores the schema
\* keys of the returned state under the thread id, and _on_chain_end updates
\* ctx.final_result with the whole output
ConnectionNodeReturns(c) ==
    /\ runs[c].pc = "graph"
    /\ \E k \in ResultKeys \cup {"none"} :
         LET output == NodeOutput(runs[c].turn, k) IN
           /\ checkpoint' = [ x \in SchemaKeys |-> output[x] ]
           /\ runs' = [ runs EXCEPT ![c].final_result = output, ![c].pc = "finalize" ]
    /\ UNCHANGED << notSessionVars, session_turns >>

\* AgentStreamProcessor.finalize reads the state it persists and sends
ConnectionFinalizes(c) ==
    /\ runs[c].pc = "finalize"
    /\ runs' = [ runs EXCEPT ![c].result_state = result_state(checkpoint, runs[c].final_result),
                             ![c].pc = "done" ]
    /\ UNCHANGED << notSessionVars, checkpoint, session_turns >>

NextSession ==
    \/ \E c \in Connections : ConnectionStartsTurn(c)
    \/ \E c \in Connections : ConnectionNodeReturns(c)
    \/ \E c \in Connections : ConnectionFinalizes(c)

SpecSession == Init /\ [][NextSession]_vars


\* ------------------------------------------------------------ document_service
\* The tables as one committed history: each call runs in the caller's database
\* session and is flushed before it returns.

Contents == {"v1", "v2"}
DocRow(content, version) == [ content |-> content, version |-> version ]
VersionRow(id, version, content) == [ document_id |-> id, version |-> version, content |-> content ]
DocResult(rows, versions, result) == [ rows |-> rows, versions |-> versions, result |-> result ]

\* services/document_service.py create_document: the row with version 1 and its
\* initial DocumentVersion
create_document(rows, versions, content) ==
    DocResult(Append(rows, DocRow(content, 1)),
              Append(versions, VersionRow(Len(rows) + 1, 1, content)),
              "created")

\* an update that leaves no DocumentVersion behind
update_document_without_snapshot(rows, versions, document_id, content) ==
    IF document_id \notin DOMAIN rows
      THEN DocResult(rows, versions, "not_found")
      ELSE DocResult([ rows EXCEPT ![document_id] = DocRow(content, @.version + 1) ],
                     versions, "updated")

\* services/document_service.py update_document: ValueError when db.get finds no
\* row; otherwise content and version + 1 on the row and one DocumentVersion with
\* the new version and content
update_document(rows, versions, document_id, content) ==
    IF document_id \notin DOMAIN rows
      THEN DocResult(rows, versions, "not_found")
      ELSE LET old_version == rows[document_id].version IN
           DocResult([ rows EXCEPT ![document_id] = DocRow(content, old_version + 1) ],
                     Append(versions, VersionRow(document_id, old_version + 1, content)),
                     "updated")

DocCall(op, id, content, r) ==
    /\ doc_rows' = r.rows
    /\ doc_versions' = r.versions
    /\ doc_calls' = Append(doc_calls, [ op |-> op, document_id |-> id, content |-> content,
                                        result |-> r.result ])
    /\ UNCHANGED notDocVars

CreateDocument ==
    /\ Len(doc_calls) < MaxDocCalls
    /\ \E content \in Contents :
          DocCall("create", Len(doc_rows) + 1, content,
                  create_document(doc_rows, doc_versions, content))

UpdateDocument ==
    /\ Len(doc_calls) < MaxDocCalls
    /\ \E document_id \in 1..MaxDocCalls, content \in Contents :
          DocCall("update", document_id, content,
                  update_document(doc_rows, doc_versions, document_id, content))

NextDocuments == CreateDocument \/ UpdateDocument

SpecDocuments == Init /\ [][NextDocuments]_vars


\* ------------------------------------------------------------- roadmap_service
\* create_roadmap awaits twice: the select of the session's active roadmaps, and the
\* commit that writes the deactivations and the new row. Another caller can run
\* between the two.

ActiveRoadmaps(rows, session_id) ==
    { i \in DOMAIN rows : rows[i].session_id = session_id /\ rows[i].is_active }

\* the body of the roadmaps route's request
RouteRoadmapData == [ goal |-> "goal", milestones |-> << 0 >> ]

\* services/roadmap_service.py create_roadmap, lines 154-182, given the rows its
\* select returned: version 1, or the parent's version + 1 when a parent id is
\* passed and found; is_active = False on the selected rows; the new active row
create_roadmap(rows, active_roadmaps, session_id, roadmap_data, parent_roadmap_id) ==
    Append([ i \in DOMAIN rows |->
               IF i \in active_roadmaps THEN [ rows[i] EXCEPT !.is_active = FALSE ] ELSE rows[i] ],
           [ session_id |-> session_id, is_active |-> TRUE,
             goal |-> roadmap_data.goal, milestones |-> roadmap_data.milestones,
             version |-> IF parent_roadmap_id \in DOMAIN rows
                           THEN rows[parent_roadmap_id].version + 1 ELSE 1,
             parent_roadmap_id |-> parent_roadmap_id ])

\* services/roadmap_service.py create_roadmap, lines 160-168: the rows selected as
\* active for the session
CreateRoadmapSelects(t) ==
    /\ creating[t].pc = "idle"
    /\ Len(roadmaps) + Cardinality({ u \in Callers : creating[u].pc = "selected" }) < MaxRoadmaps
    /\ \E session_id \in SessionIds :
          creating' = [ creating EXCEPT ![t] =
                          [ pc |-> "selected", session_id |-> session_id,
                            active_roadmaps |-> ActiveRoadmaps(roadmaps, session_id) ] ]
    /\ UNCHANGED << roadmaps, notRoadmapVars >>

\* services/roadmap_service.py create_roadmap, lines 167-182: is_active = False on the
\* selected rows, the new row with is_active = True, and the commit
CreateRoadmapCommits(t) ==
    /\ creating[t].pc = "selected"
    /\ roadmaps' = create_roadmap(roadmaps, creating[t].active_roadmaps,
                                  creating[t].session_id, RouteRoadmapData, 0)
    /\ creating' = [ creating EXCEPT ![t] = NotCreating ]
    /\ UNCHANGED notRoadmapVars

\* services/roadmap_service.py get_active_roadmap: scalar_one_or_none over the
\* session's active rows raises when there are several
get_active_roadmap(rows, session_id) ==
    IF Cardinality(ActiveRoadmaps(rows, session_id)) > 1
      THEN "MultipleResultsFound"
      ELSE IF ActiveRoadmaps(rows, session_id) = { } THEN "None" ELSE "Roadmap"

NextRoadmaps ==
    \/ \E t \in Callers : CreateRoadmapSelects(t)
    \/ \E t \in Callers : CreateRoadmapCommits(t)

SpecRoadmaps == Init /\ [][NextRoadmaps]_vars


\* ------------------------------------------------------- roadmap milestone ids
\* An entry of a reply's milestone list is an object with an id, Some(id), or
\* anything else, NoneVal. A roadmap's milestones are modelled by their ids.

MilestoneEntries == { Some(id) : id \in 0..(MaxMilestones - 1) } \cup { NoneVal }
RECURSIVE ListsUpTo(_, _)
ListsUpTo(S, n) ==
    IF n = 0 THEN { << >> }
    ELSE ListsUpTo(S, n - 1)
           \cup { Append(l, x) : l \in { m \in ListsUpTo(S, n - 1) : Len(m) = n - 1 }, x \in S }
MilestoneReplies == ListsUpTo(MilestoneEntries, MaxMilestones)
IsDict(m) == IsSet(m)
AllDicts(reply) == \A i \in 1..Len(reply) : IsDict(reply[i])
Renumbered(ms) == [ i \in 1..Len(ms) |-> i - 1 ]

\* agent/nodes/planner.py _generate_roadmap / _modify_roadmap, structured output:
\* RoadmapOutput validates the reply (every milestone an object with an int id) and
\* the roadmap takes the milestones as model_dump returns them
structured_milestones(reply) == [ i \in 1..Len(reply) |-> Get(reply[i]) ]

\* agent/nodes/planner.py _generate_roadmap_fallback: milestone["id"] = i over the
\* parsed list; an entry that takes no item assignment raises, and the except block
\* returns the minimal roadmap with the single milestone 0
fallback_milestones(reply) ==
    IF AllDicts(reply) THEN Renumbered(reply) ELSE << 0 >>

\* services/persistence_coordinator.py _normalize_milestones over the entries of
\* roadmap_data["milestones"]: entries that are not dicts are skipped, every other
\* entry gets id = its index in the raw list whatever id it came with, and an empty
\* result is replaced by the default milestone 0
_normalize_milestones(milestones_raw) ==
    LET kept == SelectSeq([ i \in 1..Len(milestones_raw) |-> i ],
                          LAMBDA i : IsDict(milestones_raw[i]))
    IN  IF kept = << >> THEN << 0 >> ELSE [ k \in 1..Len(kept) |-> kept[k] - 1 ]

\* the entries of state["roadmap"]["milestones"]: the planner only ever stores objects
AsEntries(ms) == [ i \in 1..Len(ms) |-> Some(ms[i]) ]

\* planner_agent_node stores the roadmap of the reply in state["roadmap"]
PlannerReturnsRoadmap ==
    /\ planning.pc = "idle"
    /\ \E method \in {"structured", "fallback"}, reply \in MilestoneReplies :
          /\ method = "structured" => AllDicts(reply)
          /\ planning' = [ planning EXCEPT
                             !.pc = "finalize", !.method = method, !.reply = reply,
                             !.milestones = IF method = "structured"
                                              THEN structured_milestones(reply)
                                              ELSE fallback_milestones(reply) ]
    /\ UNCHANGED notPlanning

\* AgentStreamProcessor.finalize, lines 368-378: persist_roadmap stores the
\* normalized milestones, then send_roadmap sends result_state["roadmap"] itself
FinalizeRoadmap ==
    /\ planning.pc = "finalize"
    /\ planning' = [ planning EXCEPT !.pc = "done",
                                     !.stored = _normalize_milestones(AsEntries(planning.milestones)),
                                     !.sent = planning.milestones ]
    /\ UNCHANGED notPlanning

NextMilestones == PlannerReturnsRoadmap \/ FinalizeRoadmap

SpecMilestones == Init /\ [][NextMilestones]_vars


\* ------------------------------------------------------------ planner turns
\* Turns of session s1 that reach planner_agent_node, followed by finalize. A model
\* call either fails (NoneVal) or replies with a goal and milestones.

PlannerTarget == "target"
PlannerReplies ==
    { NoneVal } \cup { Some([ goal |-> "reply goal", milestones |-> ms ]) : ms \in { << 0, 1 >>, << 1, 2 >> } }
Roadmap(id, goal, milestones, version) ==
    [ id |-> id, goal |-> goal, milestones |-> milestones, version |-> version ]
PlannerResult(roadmap, error) == [ roadmap |-> roadmap, error |-> error ]

\* a fallback that lets its failure out instead of a roadmap
_generate_roadmap_fallback_propagating(target, fallback) ==
    IF IsSet(fallback)
      THEN PlannerResult(Some(Roadmap(0, Get(fallback).goal, Renumbered(Get(fallback).milestones), 1)),
                         "None")
      ELSE PlannerResult(NoneVal, "Failed to generate roadmap")

\* agent/nodes/planner.py _generate_roadmap_fallback: the parsed reply with its
\* milestones renumbered and version 1, or, on any failure, the minimal roadmap
\* (goal = target, the single milestone 0) with an error beside it
_generate_roadmap_fallback(target, fallback) ==
    IF IsSet(fallback)
      THEN PlannerResult(Some(Roadmap(0, Get(fallback).goal, Renumbered(Get(fallback).milestones), 1)),
                         "None")
      ELSE PlannerResult(Some(Roadmap(0, target, << 0 >>, 1)), "Failed to generate roadmap")

\* agent/nodes/planner.py _generate_roadmap: the structured reply as it came, with
\* version 1; when the structured call fails, the fallback
_generate_roadmap(target, structured, fallback) ==
    IF IsSet(structured)
      THEN PlannerResult(Some(Roadmap(0, Get(structured).goal, Get(structured).milestones, 1)), "None")
      ELSE _generate_roadmap_fallback(target, fallback)

\* agent/nodes/planner.py _modify_roadmap: without a current roadmap, generation;
\* the structured reply with the current version + 1; on failure the current roadmap
\* and the error beside it
_modify_roadmap(current_roadmap, target, structured, fallback) ==
    IF ~IsSet(current_roadmap)
      THEN _generate_roadmap(target, structured, fallback)
      ELSE IF IsSet(structured)
        THEN PlannerResult(Some(Roadmap(0, Get(structured).goal, Get(structured).milestones,
                                        Get(current_roadmap).version + 1)), "None")
        ELSE PlannerResult(current_roadmap, "modification failed")

\* agent/nodes/planner.py planner_agent_node, lines 119-132: which of the two runs
planner_result(mode, current_roadmap, target, structured, fallback) ==
    IF mode = "roadmap_modify" /\ IsSet(current_roadmap)
      THEN _modify_roadmap(current_roadmap, target, structured, fallback)
      ELSE _generate_roadmap(target, structured, fallback)

\* the session's active roadmap as a state would carry it
ActiveRoadmapOf(rows, session_id) ==
    IF ActiveRoadmaps(rows, session_id) = { } THEN NoneVal
    ELSE LET id == CHOOSE i \in ActiveRoadmaps(rows, session_id) : TRUE
         IN  Some(Roadmap(id, rows[id].goal, rows[id].milestones, rows[id].version))

\* services/persistence_coordinator.py persist_roadmap: goal and normalized
\* milestones of roadmap_data go to create_roadmap; no parent id is passed
persist_roadmap(rows, session_id, roadmap_data) ==
    create_roadmap(rows, ActiveRoadmaps(rows, session_id), session_id,
                   [ goal |-> roadmap_data.goal,
                     milestones |-> _normalize_milestones(AsEntries(roadmap_data.milestones)) ],
                   0)

\* planner_agent_node runs in a turn of session s1. websocket_endpoint builds the
\* state without current_roadmap; a state that carries it holds the active roadmap.
\* The node stores result["roadmap"] and nothing else of the result.
PlannerNodeRuns ==
    /\ plan.pc \in {"idle", "done"}
    /\ Len(roadmaps) < MaxRoadmaps
    /\ \E mode \in {"roadmap_generate", "roadmap_modify"}, carried \in BOOLEAN,
          structured \in PlannerReplies, fallback \in PlannerReplies :
         LET current_roadmap == IF carried THEN ActiveRoadmapOf(roadmaps, "s1") ELSE NoneVal
             result == planner_result(mode, current_roadmap, PlannerTarget, structured, fallback)
         IN  /\ IsSet(structured) => fallback = NoneVal
             /\ plan' = [ pc |-> "finalize", mode |-> mode, current_roadmap |-> current_roadmap,
                          structured |-> structured, fallback |-> fallback,
                          roadmap |-> result.roadmap, error |-> "None",
                          before |-> roadmaps, events |-> << >> ]
    /\ UNCHANGED << roadmaps, notPlan >>

\* AgentStreamProcessor.finalize, lines 363-378 and 396: an error in the state is
\* handled and ends finalize; a roadmap is persisted, given its id and sent
PlannerTurnFinalizes ==
    /\ plan.pc = "finalize"
    /\ IF plan.error # "None"
         THEN /\ plan' = [ plan EXCEPT !.pc = "done", !.events = << "error" >> ]
              /\ UNCHANGED roadmaps
         ELSE IF IsSet(plan.roadmap)
           THEN /\ roadmaps' = persist_roadmap(roadmaps, "s1", Get(plan.roadmap))
                /\ plan' = [ plan EXCEPT !.pc = "done",
                                         !.roadmap = Some([ Get(plan.roadmap) EXCEPT
                                                              !.id = Len(roadmaps) + 1 ]),
                                         !.events = << "roadmap", "done" >> ]
           ELSE /\ plan' = [ plan EXCEPT !.pc = "done", !.events = << "done" >> ]
                /\ UNCHANGED roadmaps
    /\ UNCHANGED notPlan

NextPlanner == PlannerNodeRuns \/ PlannerTurnFinalizes

SpecPlanner == Init /\ [][NextPlanner]_vars


\* --------------------------------------------------------------- entity_service
\* A database session of AsyncSessionLocal (autoflush = False) over the two tables:
\* the rows it has flushed, and the links it has added but not flushed. A select
\* sees the flushed rows only.

EntityNames == {"a", "b"}
EntityDocIds == {1, 2}
EntityNameLists == ListsUpTo(EntityNames, MaxNames)
DbSession(entities, links, pending, error) ==
    [ entities |-> entities, links |-> links, pending |-> pending, error |-> error ]
Link(entity_id, document_id) == [ entity_id |-> entity_id, document_id |-> document_id ]

\* unique_entity_doc_link: no two rows with the same entity, document and link type
LinksUnique(links) ==
    \A i, k \in 1..Len(links) : links[i] = links[k] => i = k

\* AsyncSession.flush: the pending links are inserted; the unique constraint
\* rejects the insert with IntegrityError
flush(db) ==
    IF LinksUnique(db.links \o db.pending)
      THEN DbSession(db.entities, db.links \o db.pending, << >>, db.error)
      ELSE DbSession(db.entities, db.links, db.pending, "IntegrityError")

\* services/entity_service.py _find_entity: the id of the row, 0 for None
_find_entity(db, session_id, name) ==
    LET found == { i \in 1..Len(db.entities) :
                     db.entities[i] = [ session_id |-> session_id, name |-> name ] }
    IN  IF found = { } THEN 0 ELSE CHOOSE i \in found : TRUE

\* services/entity_service.py _find_link: a select over the flushed links
_find_link(db, entity_id, document_id) ==
    \E i \in 1..Len(db.links) : db.links[i] = Link(entity_id, document_id)

\* services/entity_service.py _ensure_entity: the session after the call; a new
\* entity is added and the session flushed
_ensure_entity(db, session_id, name) ==
    IF _find_entity(db, session_id, name) # 0 THEN db
    ELSE flush(DbSession(Append(db.entities, [ session_id |-> session_id, name |-> name ]),
                         db.links, db.pending, db.error))

\* services/entity_service.py _link_document: a link not found is added to the
\* session, and not flushed
_link_document(db, entity_id, document_id) ==
    IF _find_link(db, entity_id, document_id) THEN db
    ELSE DbSession(db.entities, db.links, Append(db.pending, Link(entity_id, document_id)),
                   db.error)

\* services/entity_service.py upsert_entities: the loop over entity_names, then the
\* flush; an exception of a flush ends the call
RECURSIVE upsert_entities(_, _, _, _)
upsert_entities(db, session_id, entity_names, document_id) ==
    IF db.error # "None" THEN db
    ELSE IF entity_names = << >> THEN flush(db)
    ELSE LET ensured == _ensure_entity(db, session_id, Head(entity_names))
         IN  IF ensured.error # "None" THEN ensured
             ELSE upsert_entities(
                      _link_document(ensured,
                                     _find_entity(ensured, session_id, Head(entity_names)),
                                     document_id),
                      session_id, Tail(entity_names), document_id)

\* a caller runs upsert_entities in a session of get_db_session, which commits when
\* the call returns and rolls back when it raises
UpsertEntities ==
    /\ Len(entity_calls) < MaxEntityCalls
    /\ \E session_id \in SessionIds, entity_names \in EntityNameLists,
          document_id \in EntityDocIds :
         LET db == upsert_entities(DbSession(entity_rows, entity_links, << >>, "None"),
                                   session_id, entity_names, document_id)
         IN  /\ entity_calls' = Append(entity_calls,
                                       [ session_id |-> session_id, entity_names |-> entity_names,
                                         document_id |-> document_id, result |-> db.error ])
             /\ IF db.error = "None"
                  THEN entity_rows' = db.entities /\ entity_links' = db.links
                  ELSE UNCHANGED << entity_rows, entity_links >>
    /\ UNCHANGED notEntityVars

NextEntities == UpsertEntities

SpecEntities == Init /\ [][NextEntities]_vars


\* ------------------------------------------------------------ intent classifier
\* A message is the sequence of the phrases it is made of. The phrases stand for the
\* source's texts: wo_xiang_xue 我想学, wo_xiang_liaojie 我想了解, jiaojiao_wo 教教我,
\* shenme_shi 什么是, xiangxi_shuoshuo 详细说说, zai_xiangxi_dian 再详细点,
\* xiangxi_dian 详细点, duibi_yixia 对比一下, zenme_ban 怎么办, tai_chouxiang 太抽象,
\* xiexie 谢谢, ni_shi_shui 你是谁, jiang_xiangxi 讲详细, shuo_qingchu 说清楚,
\* juli 举例, geng_shenru 更深入, buchong 补充; redis matches no rule.

Phrases == {"wo_xiang_xue", "roadmap", "xiangxi_shuoshuo", "zai_xiangxi_dian", "duibi_yixia",
            "zenme_ban", "tai_chouxiang", "hello", "xiexie",
            "jiang_xiangxi", "shuo_qingchu", "geng_shenru", "redis"}
Messages == ListsUpTo(Phrases, MaxPhrases)

\* the texts found inside a phrase: 再详细点 contains 详细点. A pattern with a wildcard
\* (介绍.*一下) is listed by the text it matches with nothing in between.
Within(phrase) ==
    IF phrase = "zai_xiangxi_dian" THEN {"zai_xiangxi_dian", "xiangxi_dian"} ELSE {phrase}

Pattern(alternatives, anchored, intent_type, confidence) ==
    [ alternatives |-> alternatives, anchored |-> anchored, intent_type |-> intent_type,
      confidence |-> confidence ]

\* agent/classifier.py IntentClassifier.STRONG_PATTERNS, in the order of the dict;
\* confidences in hundredths
STRONG_PATTERNS ==
    << Pattern({"wo_xiang_xue", "wo_xiang_liaojie", "jiaojiao_wo", "shenme_shi", "jieshao_yixia"},
               FALSE, "new_topic", 100),
       Pattern({"xuexi_lujing", "xuexi_jianyi", "xuexi_guihua", "luxiantu", "roadmap", "plan",
                "guihua_xuexi"},
               FALSE, "plan", 100),
       Pattern({"xiangxi_shuoshuo", "shenru_jiangjiang", "zai_xiangxi_dian", "zhankai_jiangjiang"},
               FALSE, "follow_up", 100),
       Pattern({"he_de_qubie", "he_butong", "duibi_yixia", "bijiao_he"},
               FALSE, "comparison", 100),
       Pattern({"zenme_ban", "zenme_zuo", "ruhe_shixian", "geiwo_lizi"},
               FALSE, "question_practical", 100),
       Pattern({"tai_chouxiang", "tai_jiandan", "mei_kandong", "bu_mingbai", "xiangxi_dian"},
               FALSE, "optimize_content", 100),
       Pattern({"nihao", "hai", "hello", "hi", "haihai", "zaoshang_hao", "wanshang_hao",
                "xiawu_hao", "zaoan", "wanan", "halou", "hey"},
               TRUE, "chitchat", 100),
       Pattern({"xiexie", "ganxie", "duoxie", "bu_keqi", "mei_guanxi", "haode", "xing", "keyi",
                "mei_wenti"},
               TRUE, "chitchat", 100),
       Pattern({"zaijian", "baibai", "zoule", "huijian", "bye", "goodbye"},
               TRUE, "chitchat", 100),
       Pattern({"ni_shi_shui", "ni_jiao_shenme", "jieshao_yixia_ziji", "ni_shi_shenme",
                "ni_neng_zuo_shenme"},
               FALSE, "chitchat", 100) >>

\* agent/classifier.py IntentClassifier.FUZZY_PATTERNS, in the order of the dict
FUZZY_PATTERNS ==
    << [ keyword |-> "jiang_xiangxi", intent |-> "follow_up" ],
       [ keyword |-> "shuo_qingchu", intent |-> "optimize_content" ],
       [ keyword |-> "juli", intent |-> "optimize_content" ],
       [ keyword |-> "geng_shenru", intent |-> "follow_up" ],
       [ keyword |-> "buchong", intent |-> "optimize_content" ] >>

\* re.search(pattern, message, re.IGNORECASE): an anchored pattern matches at the
\* start of the message only
Search(pattern, message) ==
    IF pattern.anchored
      THEN message # << >> /\ message[1] \in pattern.alternatives
      ELSE \E i \in 1..Len(message) : Within(message[i]) \cap pattern.alternatives # { }

\* the last of a set of table indices, 0 when the set is empty
LastHit(hits) ==
    IF hits = { } THEN 0 ELSE CHOOSE i \in hits : \A k \in hits : k <= i

\* the for loops of classify and _fuzzy_match return at the first entry of the dict
\* that is found in the message: the first of the indices found, 0 when the loop
\* ends without returning
FirstHit(hits) ==
    IF hits = { } THEN 0 ELSE CHOOSE i \in hits : \A k \in hits : i <= k

\* the indices of the patterns of STRONG_PATTERNS that re.search finds in the message
StrongHits(message) ==
    { i \in 1..Len(STRONG_PATTERNS) : Search(STRONG_PATTERNS[i], message) }

\* the indices of the keywords of FUZZY_PATTERNS contained in the message
FuzzyHits(message) ==
    { i \in 1..Len(FUZZY_PATTERNS) :
        \E k \in 1..Len(message) : FUZZY_PATTERNS[i].keyword \in Within(message[k]) }

\* a loop over STRONG_PATTERNS that keeps the last pattern found in the message
last_strong_match(message) == LastHit(StrongHits(message))

\* agent/classifier.py IntentClassifier.classify, the loop over STRONG_PATTERNS: the
\* index of the pattern it returns at, 0 when it returns at none
first_strong_match(message) == FirstHit(StrongHits(message))

\* agent/classifier.py IntentClassifier._fuzzy_match: the intent of the first keyword
\* contained in the message, NoneVal for None
_fuzzy_match(message) ==
    LET i == FirstHit(FuzzyHits(message))
    IN  IF i = 0 THEN NoneVal ELSE Some(FUZZY_PATTERNS[i].intent)

\* the prefixes of _extract_target: 我想学, 我想了解, 什么是, 介绍一下, 详细说说
TargetPrefixes ==
    << "wo_xiang_xue", "wo_xiang_liaojie", "shenme_shi", "jieshao_yixia", "xiangxi_shuoshuo" >>

RECURSIVE StripPrefixes(_, _)
StripPrefixes(result, prefixes) ==
    IF prefixes = << >> THEN result
    ELSE StripPrefixes(IF result # << >> /\ Head(result) = Head(prefixes)
                         THEN Tail(result) ELSE result,
                       Tail(prefixes))

\* agent/classifier.py IntentClassifier._extract_target
_extract_target(message) ==
    LET result == StripPrefixes(message, TargetPrefixes)
    IN  IF result # << >> THEN result ELSE message

\* what the completion service answers to a classification request: ainvoke raises
\* ("error"), or returns a message whose content is not a string ("content_list") or
\* is a string: empty, text without JSON, or JSON of some type. A JSON object
\* carries any intent_type and target, or none.
ReplyIntentTypes == {"new_topic", "question", "chitchat", "other"}
LLMReplies ==
    { [ kind |-> k, intent_type |-> NoneVal, target |-> NoneVal ] :
        k \in {"error", "content_list", "empty", "text", "json_scalar", "json_array"} }
    \cup [ kind : {"json_object"},
           intent_type : {NoneVal} \cup { Some(t) : t \in ReplyIntentTypes },
           target : {NoneVal, Some(<< "llm_target" >>)} ]

\* agent/llm_utils.py parse_llm_json_response: the Python type of the value parsed
\* from a string; empty content and content without JSON raise ValueError
parse_llm_json_response(content) ==
    CASE content.kind \in {"empty", "text"} -> "ValueError"
      [] content.kind = "json_scalar" -> "scalar"
      [] content.kind = "json_array" -> "list"
      [] content.kind = "json_object" -> "dict"

Intent(intent_type, confidence, method, target) ==
    [ intent_type |-> intent_type, confidence |-> confidence, method |-> method,
      target |-> target ]
\* the outcome of a call of classify: whether it raised, whether it invoked the
\* completion service, and the intent it returned
Classified(raised, llm_invoked, intent) ==
    [ raised |-> raised, llm_invoked |-> llm_invoked, intent |-> intent ]

\* agent/classifier.py IntentClassifier._llm_classify, the except clause
llm_fallback(message) ==
    Classified(FALSE, TRUE, Some(Intent("question", 50, "llm_fallback", _extract_target(message))))

\* an _llm_classify without try and except
_llm_classify_raising(llm, message, reply) ==
    IF reply.kind \in {"error", "empty", "text", "json_scalar", "json_array"}
      THEN Classified(TRUE, TRUE, NoneVal)
      ELSE Classified(FALSE, TRUE,
                      Some(Intent(IF IsSet(reply.intent_type) THEN Get(reply.intent_type)
                                  ELSE "question",
                                  85, "llm",
                                  IF IsSet(reply.target) THEN Get(reply.target)
                                  ELSE _extract_target(message))))

\* agent/classifier.py IntentClassifier._llm_classify
_llm_classify(llm, message, reply) ==
    IF ~llm
      THEN Classified(FALSE, FALSE, Some(Intent("question", 50, "fallback_no_llm", message)))
    ELSE IF reply.kind = "error" THEN llm_fallback(message)
    ELSE IF reply.kind = "content_list"
      THEN Classified(FALSE, TRUE,
                      Some(Intent("question", 85, "llm", message)))
    ELSE LET parsed == parse_llm_json_response(reply)
         IN  IF parsed # "dict" THEN llm_fallback(message)
             ELSE Classified(FALSE, TRUE,
                             Some(Intent(IF IsSet(reply.intent_type) THEN Get(reply.intent_type)
                                         ELSE "question",
                                         85, "llm",
                                         IF IsSet(reply.target) THEN Get(reply.target)
                                         ELSE _extract_target(message))))

\* a classify that asks the model before it tries the keywords
classify_llm_before_keywords(llm, message, use_llm, reply) ==
    LET strong == first_strong_match(message)
        fuzzy_match == _fuzzy_match(message)
    IN  IF strong # 0
          THEN Classified(FALSE, FALSE,
                          Some(Intent(STRONG_PATTERNS[strong].intent_type,
                                      STRONG_PATTERNS[strong].confidence, "strong_rule",
                                      _extract_target(message))))
        ELSE IF llm /\ use_llm THEN _llm_classify(llm, message, reply)
        ELSE IF IsSet(fuzzy_match)
          THEN Classified(FALSE, FALSE,
                          Some(Intent(Get(fuzzy_match), 80, "fuzzy_rule",
                                      _extract_target(message))))
        ELSE Classified(FALSE, FALSE, Some(Intent("question", 50, "fallback", message)))

\* agent/classifier.py IntentClassifier.classify, for a classifier built with or
\* without a model handle (llm) and a context whose use_llm reads as use_llm
classify(llm, message, use_llm, reply) ==
    LET strong == first_strong_match(message)
        fuzzy_match == _fuzzy_match(message)
    IN  IF strong # 0
          THEN Classified(FALSE, FALSE,
                          Some(Intent(STRONG_PATTERNS[strong].intent_type,
                                      STRONG_PATTERNS[strong].confidence, "strong_rule",
                                      _extract_target(message))))
        ELSE IF IsSet(fuzzy_match)
          THEN Classified(FALSE, FALSE,
                          Some(Intent(Get(fuzzy_match), 80, "fuzzy_rule",
                                      _extract_target(message))))
        ELSE IF llm /\ use_llm THEN _llm_classify(llm, message, reply)
        ELSE Classified(FALSE, FALSE, Some(Intent("question", 50, "fallback", message)))

\* a caller awaits classify(message, context)
Classify ==
    /\ classified.pc = "idle"
    /\ \E llm \in BOOLEAN, message \in Messages, use_llm \in BOOLEAN, reply \in LLMReplies :
        LET c == classify(llm, message, use_llm, reply)
        IN  classified' = [ pc |-> "done", source |-> "classify", message |-> message,
                            intent_hint |-> NoneVal, found_doc |-> 0, llm |-> llm,
                            use_llm |-> use_llm, reply |-> reply, intent |-> c.intent,
                            llm_invoked |-> c.llm_invoked, raised |-> c.raised ]
    /\ UNCHANGED notClassified

\* api/routes/websocket.py: the input sources of a chat request
InputSources == {"chat", "comment", "entity", "follow_up", "entry"}
\* schemas/session.py ChatRequest.intent_hint: str | None, any string of the client
IntentHints == {NoneVal, Some("")} \cup { Some(t) : t \in StoredIntentTypes }

\* agent/nodes/intent.py _analyze_entity_intent: found_doc is the document that
\* find_entity_document returned, 0 for None or a lookup that raised
_analyze_entity_intent(entity_name, found_doc) ==
    IF found_doc # 0
      THEN [ intent_type |-> "navigate", confidence |-> 95, method |-> "none",
             target |-> << entity_name >>, target_doc_id |-> found_doc ]
      ELSE [ intent_type |-> "new_topic", confidence |-> 95, method |-> "none",
             target |-> << entity_name >>, target_doc_id |-> 0 ]

\* agent/nodes/intent.py _analyze_comment_intent
_analyze_comment_intent == Intent("optimize_content", 85, "none", << "selected_text" >>)

\* agent/nodes/intent.py _analyze_followup_intent: a hint that is None or empty
\* reads as follow_up
_analyze_followup_intent(intent_hint, message) ==
    Intent(IF IsSet(intent_hint) /\ Get(intent_hint) # "" THEN Get(intent_hint) ELSE "follow_up",
           90, "none", message)

\* agent/nodes/intent.py intent_agent_node: the outcome of the node; the classifier
\* of get_classifier holds the handle of get_fast_llm and is called with context {}
intent_agent_node(source, message, intent_hint, entity_name, found_doc, reply) ==
    IF source = "entity"
      THEN Classified(FALSE, FALSE, Some(_analyze_entity_intent(entity_name, found_doc)))
    ELSE IF source = "comment" THEN Classified(FALSE, FALSE, Some(_analyze_comment_intent))
    ELSE IF source = "follow_up"
      THEN Classified(FALSE, FALSE, Some(_analyze_followup_intent(intent_hint, message)))
    ELSE IF source = "entry"
      THEN Classified(FALSE, FALSE, Some(Intent("new_topic", 95, "none", message)))
    ELSE classify(TRUE, message, TRUE, reply)

\* the graph runs intent_agent_node on the state of a turn; the fields a branch does
\* not read are left at their defaults
IntentNodeRuns ==
    /\ classified.pc = "idle"
    /\ \E source \in InputSources, message \in Messages, intent_hint \in IntentHints,
          entity_name \in EntityNames, found_doc \in {0, 1},
          reply \in LLMReplies \cup {NoReply} :
        /\ source # "follow_up" => intent_hint = NoneVal
        /\ source # "entity" => entity_name = "a"
        /\ source # "entity" => found_doc = 0
        /\ (source = "chat") = (reply # NoReply)
        /\ LET c == intent_agent_node(source, message, intent_hint, entity_name, found_doc, reply)
           IN  classified' = [ pc |-> "done", source |-> source, message |-> message,
                               intent_hint |-> intent_hint, found_doc |-> found_doc,
                               llm |-> TRUE, use_llm |-> TRUE, reply |-> reply,
                               intent |-> c.intent, llm_invoked |-> c.llm_invoked,
                               raised |-> c.raised ]
    /\ UNCHANGED notClassified

NextClassifier == Classify \/ IntentNodeRuns

SpecClassifier == Init /\ [][NextClassifier]_vars

\* ------------------------------------------------------------- explain selection
\* Topics, selected texts and comments are texts of different vocabularies, so that
\* the origin of a resolved topic can be told; "" is the empty string.
DocTopics == {"", "redis", "python"}
SelectedTexts == {"", "selection", "long_selection"}
Comments == {"", "comment", "long_comment"}
\* the documents of a session as list_session_documents returns them, newest first;
\* ids are given in order of creation
SessionDocs ==
    UNION { { [ i \in 1..n |-> [ id |-> n + 1 - i, topic |-> topics[i] ] ] :
              topics \in [1..n -> DocTopics] } : n \in 0..MaxExplainDocs }
AnchorIds == 0..MaxExplainDocs

\* api/routes/websocket.py websocket_endpoint, lines 488-510: the current document put
\* into the turn state: the newest document of the session, None when the session has
\* none or when loading raised and the except clause logged it
loaded_document(docs, load) ==
    IF load = "ok" /\ docs # << >> THEN Some([ id |-> docs[1].id, topic |-> docs[1].topic ])
    ELSE NoneVal

\* agent/nodes/intent.py _analyze_comment_intent, lines 161-163: the intent target is
\* a prefix of the selected text, a fixed text when nothing is selected
comment_target(selected_text) ==
    IF selected_text = "" THEN "selected_content"
    ELSE IF selected_text = "long_selection" THEN "long_selection_prefix"
    ELSE selected_text

\* str(target)[:50]: a text longer than fifty characters is cut
Prefix50(text) == IF text = "long_comment" THEN "long_comment_prefix" ELSE text

\* a resolution that asks the intent target before the current document
_resolve_doc_topic_target_first(available_docs, document, target, raw_message, document_id) ==
    IF target # "" THEN Prefix50(target)
    ELSE IF IsSet(document) /\ Get(document).topic # "" THEN Get(document).topic
    ELSE Prefix50(raw_message)

\* agent/nodes/content.py _resolve_doc_topic: document_id is the anchor of the
\* comment (0 for none), target the intent target
_resolve_doc_topic(available_docs, document, target, raw_message, document_id) ==
    LET hits == { i \in 1..Len(available_docs) : available_docs[i].id = document_id }
    IN  IF document_id # 0 /\ hits # { }
          THEN available_docs[CHOOSE i \in hits : \A k \in hits : i <= k].topic
        ELSE IF IsSet(document) /\ Get(document).topic # "" THEN Get(document).topic
        ELSE IF target # "" THEN Prefix50(target)
        ELSE Prefix50(raw_message)

\* a caller hands _resolve_doc_topic a state and the comment data
ResolveDocTopic ==
    /\ explain.pc = "idle"
    /\ \E available_docs \in SessionDocs,
          document \in {NoneVal} \cup { Some([ id |-> 1, topic |-> t ]) : t \in DocTopics },
          target \in {"", "selection"}, raw_message \in Comments, document_id \in AnchorIds :
          explain' = [ pc |-> "done", via |-> "call", docs |-> << >>, load |-> "none",
                       document_id |-> document_id, selected_text |-> "",
                       available_docs |-> available_docs, document |-> document,
                       target |-> target, raw_message |-> raw_message,
                       doc_topic |-> _resolve_doc_topic(available_docs, document, target,
                                                        raw_message, document_id) ]
    /\ UNCHANGED notExplain

\* a comment-sourced turn of a session with the documents docs: the endpoint loads
\* the current document, the intent node takes the target from the selection, the
\* router decides explain_selection on the fast path, which fetches no available
\* documents (available_docs is no key of AgentState either), and the content node
\* resolves the topic for its prompts
CommentTurn ==
    /\ explain.pc = "idle"
    /\ \E docs \in SessionDocs, load \in {"ok", "failed"}, selected_text \in SelectedTexts,
          raw_message \in Comments, document_id \in AnchorIds :
          LET document == loaded_document(docs, load)
              target == comment_target(selected_text)
          IN  explain' = [ pc |-> "done", via |-> "turn", docs |-> docs, load |-> load,
                           document_id |-> document_id, selected_text |-> selected_text,
                           available_docs |-> << >>, document |-> document,
                           target |-> target, raw_message |-> raw_message,
                           doc_topic |-> _resolve_doc_topic(<< >>, document, target,
                                                            raw_message, document_id) ]
    /\ UNCHANGED notExplain

NextExplain == ResolveDocTopic \/ CommentTurn

SpecExplain == Init /\ [][NextExplain]_vars

\* ------------------------------------------------------------------ entity click
\* a lookup that ignores the session of the entity
find_entity_document_any_session(entities, links, session_id, entity_name) ==
    { links[k].document_id : k \in { j \in 1..Len(links) :
        /\ links[j].entity_id \in 1..Len(entities)
        /\ entities[links[j].entity_id].name = entity_name } }

\* services/entity_service.py find_entity_document: the rows of the select before
\* LIMIT 1, that is the documents linked with type explains to the active entity of
\* that name in the session. Every link is written by _link_document with type
\* explains and every entity keeps the default status active.
find_entity_document(entities, links, session_id, entity_name) ==
    { links[k].document_id : k \in { j \in 1..Len(links) :
        /\ links[j].entity_id \in 1..Len(entities)
        /\ entities[links[j].entity_id] = [ session_id |-> session_id, name |-> entity_name ] } }

\* how the lookup of _analyze_entity_intent ends: the select returns, or the session
\* or the select raises and the except clause logs it
Lookups == {"returned", "raised"}

\* the graph runs intent_agent_node for an entity-sourced turn of a session: LIMIT 1
\* without an order returns any one of the rows, None when there is none
EntityClick ==
    /\ entity_click.pc = "idle"
    /\ \E session_id \in SessionIds, entity_name \in EntityNames, lookup \in Lookups :
        \E row \in {0} \cup find_entity_document(entity_rows, entity_links,
                                                  session_id, entity_name) :
          LET rows == find_entity_document(entity_rows, entity_links, session_id, entity_name)
              doc_id == IF lookup = "raised" THEN 0 ELSE row
              c == intent_agent_node("entity", << entity_name >>, NoneVal, entity_name,
                                     doc_id, NoReply)
          IN  /\ (lookup = "returned" /\ rows # { }) => row # 0
              /\ lookup = "raised" => row = 0
              /\ entity_click' = [ pc |-> "done", session_id |-> session_id,
                                   entity_name |-> entity_name, lookup |-> lookup,
                                   entities |-> entity_rows, links |-> entity_links,
                                   intent |-> c.intent, raised |-> c.raised ]
    /\ UNCHANGED notEntityClick

NextEntityClick == UpsertEntities \/ EntityClick

SpecEntityClick == Init /\ [][NextEntityClick]_vars


\* --------------------------------------------------------------- navigator
\* The documents table holds the documents of every session; a row's id is its
\* position.
NavTopics == {"redis", "python"}
NavTargets == {""} \cup NavTopics
NavTables ==
    UNION { [ 1..n -> [ session_id : SessionIds, topic : NavTopics ] ] : n \in 0..MaxNavDocs }

\* services/document_service.py get_document: db.get by primary key, whatever the
\* session of the row; 0 stands for None
get_document(table, document_id) ==
    IF document_id \in DOMAIN table THEN {document_id} ELSE {0}

\* services/document_service.py find_document_by_topic: the rows of the session
\* whose topic contains the searched text (every topic contains the empty text);
\* the newest by updated_at is returned, which may be any of them
find_document_by_topic(table, session_id, topic) ==
    LET rows == { i \in DOMAIN table :
                    /\ table[i].session_id = session_id
                    /\ (topic = "" \/ table[i].topic = topic) }
    IN  IF rows = { } THEN {0} ELSE rows

\* agent/nodes/navigator.py navigator_agent_node, line 23: the topic searched
navigator_target(s) ==
    IF Get(s.routing_decision).target # "" THEN Get(s.routing_decision).target
    ELSE Get(s.intent).target

\* agent/nodes/navigator.py navigator_agent_node, lines 28-36: the documents the
\* lookup may yield; a lookup that raises yields None
navigator_lookup(table, session_id, s, lookup) ==
    IF lookup = "raised" THEN {0}
    ELSE IF navigator_target_doc_id(s) # 0
      THEN get_document(table, navigator_target_doc_id(s))
    ELSE find_document_by_topic(table, session_id, navigator_target(s))

\* the graph runs navigator_agent_node in a turn of a session. The routing decision
\* is absent when the node is reached from intent_agent; its target_doc_id and
\* target are what the model replied. The intent's target_doc_id is a document that
\* find_entity_document found in the session, or none.
NavigatorRuns ==
    /\ navigation.pc = "idle"
    /\ \E table \in NavTables, session_id \in SessionIds, lookup \in Lookups,
          routed \in BOOLEAN, decision_doc_id \in 0..MaxNavDocs,
          decision_target \in NavTargets, intent_target \in NavTargets :
       \E intent_doc_id \in {0} \cup { i \in DOMAIN table : table[i].session_id = session_id } :
          LET s == [ routing_decision |->
                        IF routed THEN Some([ target_doc_id |-> decision_doc_id,
                                              target |-> decision_target ])
                        ELSE NoneVal,
                     intent |-> Some([ target_doc_id |-> intent_doc_id,
                                       target |-> intent_target ]) ]
              run == [ pc |-> "done", session_id |-> session_id, table |-> table,
                       routing_decision |-> s.routing_decision, intent |-> s.intent,
                       lookup |-> lookup, raised |-> FALSE, navigation_target |-> NoneVal ]
          IN  IF ~routed
                THEN navigation' = [ run EXCEPT !.raised = TRUE, !.lookup = "none" ]
                ELSE \E found \in navigator_lookup(table, session_id, s, lookup) :
                        navigation' = [ run EXCEPT !.navigation_target =
                                                      Some(navigation_target_for(found)) ]
    /\ UNCHANGED notNavigation

NextNavigator == NavigatorRuns
SpecNavigator == Init /\ [][NextNavigator]_vars

\* ------------------------------------------------------------ JSON extraction
\* A text is a sequence of lexical tokens: the brackets and the comma, a space
\* ("ws") and a line break ("nl"), a markdown fence of three backquotes ("fence")
\* and the language tag that may follow it ("lang"), a word of prose ("text"), an
\* object key with its colon ("a:", "b:"), and the JSON scalars: a number, null,
\* and string literals, one token each. The string literals are the plain "s",
\* one that contains an opening brace ("s_open"), one that contains a comma
\* followed by a closing brace ("s_comma_brace") and one that contains a closing
\* brace ("s_brace").
Whitespace == {"ws", "nl"}
Openers == {"{", "["}
Closers == {"}", "]"}
Keys == {"a:", "b:"}
Scalars == {"num", "null", "s", "s_open", "s_comma_brace", "s_brace"}

\* str.strip
strip(text) ==
    LET solid == { i \in 1..Len(text) : text[i] \notin Whitespace }
    IN  IF solid = { } THEN << >>
        ELSE SubSeq(text, CHOOSE i \in solid : \A j \in solid : i <= j,
                          CHOOSE i \in solid : \A j \in solid : j <= i)

\* whether the comma at position i is followed, after any whitespace, by a closing
\* bracket: a match of the pattern ,(\s*[}\]])
RECURSIVE BeforeCloser(_, _)
BeforeCloser(text, i) ==
    IF i + 1 > Len(text) THEN FALSE
    ELSE IF text[i + 1] \in Whitespace THEN BeforeCloser(text, i + 1)
    ELSE text[i + 1] \in Closers

RECURSIVE FixFrom(_, _)
FixFrom(text, i) ==
    IF i > Len(text) THEN << >>
    ELSE ( IF text[i] = "," /\ BeforeCloser(text, i) THEN << >>
           ELSE IF text[i] = "s_comma_brace" THEN << "s_brace" >>
           ELSE << text[i] >> ) \o FixFrom(text, i + 1)

\* agent/llm_utils.py _fix_trailing_commas: re.sub removes every comma that
\* whitespace and a closing bracket follow, inside string literals too
_fix_trailing_commas(text) == FixFrom(text, 1)

\* the JSON grammar over the tokens that are not whitespace: the position after
\* the value that starts at p, or 0 when no value starts there
RECURSIVE ParseValue(_, _), ParseElements(_, _), ParseMembers(_, _)
ParseValue(t, p) ==
    IF p > Len(t) THEN 0
    ELSE IF t[p] \in Scalars THEN p + 1
    ELSE IF t[p] = "["
      THEN IF p + 1 <= Len(t) /\ t[p + 1] = "]" THEN p + 2 ELSE ParseElements(t, p + 1)
    ELSE IF t[p] = "{"
      THEN IF p + 1 <= Len(t) /\ t[p + 1] = "}" THEN p + 2 ELSE ParseMembers(t, p + 1)
    ELSE 0
ParseElements(t, p) ==
    LET q == ParseValue(t, p)
    IN  IF q = 0 \/ q > Len(t) THEN 0
        ELSE IF t[q] = "]" THEN q + 1
        ELSE IF t[q] = "," THEN ParseElements(t, q + 1)
        ELSE 0
ParseMembers(t, p) ==
    IF p > Len(t) \/ t[p] \notin Keys THEN 0
    ELSE LET q == ParseValue(t, p + 1)
         IN  IF q = 0 \/ q > Len(t) THEN 0
             ELSE IF t[q] = "}" THEN q + 1
             ELSE IF t[q] = "," THEN ParseMembers(t, q + 1)
             ELSE 0

IsSolid(token) == token \notin Whitespace

\* json.loads: whether the text is one JSON value, and the value, written as the
\* text without its whitespace (the keys of an object are distinct in every text
\* drawn here, so that two texts denote one value exactly when they agree on it)
json_loads(text) ==
    LET t == SelectSeq(text, IsSolid)
    IN  [ ok |-> t # << >> /\ ParseValue(t, 1) = Len(t) + 1, value |-> t ]

\* agent/llm_utils.py _try_parse_json: None when json.loads raises, and the value
\* otherwise, which is None too when the text is the JSON null
_try_parse_json(text) ==
    LET loaded == json_loads(_fix_trailing_commas(strip(text)))
    IN  IF loaded.ok /\ loaded.value # << "null" >> THEN Some(loaded.value) ELSE NoneVal

AllWhitespace(text, from, to) == \A k \in from..to : text[k] \in Whitespace

\* the matches of ```(?:json|python|javascript|js|text)?\s*\n(.*?)\n\s*``` that
\* start at the fence at position i: the line break n that ends the opening line
\* and the line break e that the closing fence follows
BlockMatches(text, i) ==
    LET a == IF i + 1 <= Len(text) /\ text[i + 1] = "lang" THEN i + 2 ELSE i + 1
    IN  { m \in (a..Len(text)) \X (a..Len(text)) :
            /\ text[m[1]] = "nl" /\ AllWhitespace(text, a, m[1] - 1)
            /\ m[2] > m[1] /\ text[m[2]] = "nl"
            /\ \E f \in (m[2] + 1)..Len(text) :
                  text[f] = "fence" /\ AllWhitespace(text, m[2] + 1, f - 1) }

\* agent/llm_utils.py _extract_from_code_block: re.search takes the leftmost fence
\* that opens a match, the greedy \s* the last line break that allows one, and the
\* lazy group the shortest interior
_extract_from_code_block(text) ==
    LET opens == { i \in 1..Len(text) : text[i] = "fence" /\ BlockMatches(text, i) # { } }
    IN  IF opens = { } THEN NoneVal
        ELSE LET i == CHOOSE i \in opens : \A j \in opens : i <= j
                 ms == BlockMatches(text, i)
                 n == CHOOSE n \in { m[1] : m \in ms } : \A m \in ms : m[1] <= n
                 e == CHOOSE e \in { m[2] : m \in ms } :
                        \A m \in ms : m[1] = n => e <= m[2]
             IN  Some(SubSeq(text, n + 1, e - 1))

\* the bracket count of _extract_json_substring from position i at the given
\* depth: the position of the closing bracket that brings the depth to 0, or 0.
\* A string literal is one token, so no bracket inside one is counted.
RECURSIVE MatchingCloser(_, _, _)
MatchingCloser(text, i, depth) ==
    IF i > Len(text) THEN 0
    ELSE IF text[i] \in Openers THEN MatchingCloser(text, i + 1, depth + 1)
    ELSE IF text[i] \in Closers
      THEN IF depth - 1 = 0 THEN i ELSE MatchingCloser(text, i + 1, depth - 1)
    ELSE MatchingCloser(text, i + 1, depth)

\* agent/llm_utils.py _extract_json_substring
_extract_json_substring(text) ==
    LET t == strip(text)
        starts == { i \in 1..Len(t) : t[i] \in Openers }
    IN  IF starts = { } THEN NoneVal
        ELSE LET start_idx == CHOOSE i \in starts : \A j \in starts : i <= j
                 end_idx == MatchingCloser(t, start_idx, 0)
             IN  IF end_idx = 0 THEN NoneVal ELSE Some(SubSeq(t, start_idx, end_idx))

ParseResult(raised, error, strategy, value) ==
    [ raised |-> raised, error |-> error, strategy |-> strategy, value |-> value ]

\* agent/llm_utils.py parse_llm_json_response, on the text itself: the three
\* strategies in their order; an empty content and an empty code block are falsy
parse_llm_json_text(content) ==
    IF content = << >> THEN ParseResult(TRUE, "Empty LLM response", "none", << >>)
    ELSE LET direct == _try_parse_json(content)
             code_block == _extract_from_code_block(content)
             from_block == IF IsSet(code_block) /\ Get(code_block) # << >>
                             THEN _try_parse_json(Get(code_block)) ELSE NoneVal
             json_substring == _extract_json_substring(content)
             from_substring == IF IsSet(json_substring)
                                 THEN _try_parse_json(Get(json_substring)) ELSE NoneVal
         IN  IF IsSet(direct) THEN ParseResult(FALSE, "", "direct", Get(direct))
             ELSE IF IsSet(from_block)
               THEN ParseResult(FALSE, "", "code_block", Get(from_block))
             ELSE IF IsSet(from_substring)
               THEN ParseResult(FALSE, "", "substring", Get(from_substring))
             ELSE ParseResult(TRUE, "no valid JSON found", "none", << >>)

\* what a completion may carry where JSON is expected: objects and arrays, with
\* and without trailing commas, scalars, broken JSON, prose, nothing
Bodies ==
    { << "{", "a:", "s", "}" >>,
      << "{", "a:", "s", ",", "}" >>,
      << "[", "num", ",", "ws", "]" >>,
      << "{", "a:", "[", "num", ",", "]", ",", "nl", "b:", "null", "}" >>,
      << "{", "a:", "s_comma_brace", "}" >>,
      << "[", "s_open", "]" >>,
      << "null" >>,
      << "num" >>,
      << "{", "a:", "s" >>,
      << "[", "num", "}" >>,
      << "{", "text", "}" >>,
      << "text" >>,
      << >> }

Fenced(body) == << "fence", "lang", "nl" >> \o body \o << "nl", "fence" >>

\* the replies: the body bare, padded, fenced in several ways, inside prose, and
\* two bodies one after the other
Completions ==
    Bodies
    \cup { << "ws" >> \o b \o << "nl" >> : b \in Bodies }
    \cup { Fenced(b) : b \in Bodies }
    \cup { << "fence", "nl" >> \o b \o << "nl", "ws", "fence" >> : b \in Bodies }
    \cup { << "fence", "lang", "ws" >> \o b \o << "fence" >> : b \in Bodies }
    \cup { << "text", "nl" >> \o Fenced(b) \o << "nl", "text" >> : b \in Bodies }
    \cup { << "text", "ws" >> \o b \o << "ws", "text" >> : b \in Bodies }
    \cup { Fenced(b[1]) \o << "nl", "text", "nl" >> \o Fenced(b[2]) : b \in Bodies \X Bodies }
    \cup { << "text" >> \o b[1] \o << "text" >> \o b[2] : b \in Bodies \X Bodies }
    \cup { Fenced(b[1]) \o << "nl" >> \o b[2] : b \in Bodies \X Bodies }

\* a call of parse_llm_json_response
ParseLLMJson ==
    /\ json_call.pc = "idle"
    /\ \E content \in Completions :
          json_call' = [ pc |-> "done", content |-> content,
                      result |-> parse_llm_json_text(content) ]
    /\ UNCHANGED notParsed

NextParser == ParseLLMJson
SpecParser == Init /\ [][NextParser]_vars

\* ----------------------------------------------------------- specification
Next ==
    \/ StartTurn
    \/ initialize
    \/ persist_user_input
    \/ on_chain_start
    \/ InputNormalizerNode
    \/ IntentAgentNode
    \/ RouteAgentNode
    \/ NavigatorAgentNode
    \/ ChitchatAgentNode
    \/ PlannerAgentNode
    \/ ContentAgentNode
    \/ PostProcessNode
    \/ ChatModelStream
    \/ on_chain_end
    \/ finalize
    \/ handle_exception
    \/ cleanup
    \/ ClientDisconnect
    \/ Cancel

Spec == Init /\ [][Next]_vars

\* The graph run for every intent and every router reply, in an environment without
\* faults and with model calls that stream nothing.
NextRouting ==
    \/ StartReliableTurn
    \/ initialize
    \/ persist_user_input
    \/ on_chain_start
    \/ InputNormalizerNode
    \/ IntentAgentNodeAnyType
    \/ RouteAgentNodeAnyReply
    \/ NavigatorAgentNode
    \/ ChitchatAgentNode
    \/ PlannerAgentNode
    \/ ContentAgentNode
    \/ PostProcessNode
    \/ on_chain_end
    \/ finalize
    \/ handle_exception
    \/ cleanup

SpecRouting == Init /\ [][NextRouting]_vars

\* The pipeline in an environment without faults, with the three enrichment calls of
\* post_process returning one at a time in any order.
NextEnrichment ==
    \/ StartReliableTurn
    \/ initialize
    \/ persist_user_input
    \/ on_chain_start
    \/ InputNormalizerNode
    \/ IntentAgentNode
    \/ RouteAgentNode
    \/ NavigatorAgentNode
    \/ ChitchatAgentNode
    \/ PlannerAgentNode
    \/ ContentAgentNode
    \/ EnrichmentCallReturns
    \/ PostProcessJoin
    \/ ChatModelStream
    \/ on_chain_end
    \/ finalize
    \/ handle_exception
    \/ cleanup

SpecEnrichment == Init /\ [][NextEnrichment]_vars

\* The pipeline in an environment without faults, with session restores arriving
\* from the client at any moment of the turn.
NextRestore ==
    \/ StartReliableTurn
    \/ initialize
    \/ persist_user_input
    \/ on_chain_start
    \/ InputNormalizerNode
    \/ IntentAgentNode
    \/ RouteAgentNode
    \/ NavigatorAgentNode
    \/ ChitchatAgentNode
    \/ PlannerAgentNode
    \/ ContentAgentNode
    \/ PostProcessNode
    \/ ChatModelStream
    \/ on_chain_end
    \/ finalize
    \/ handle_exception
    \/ cleanup
    \/ restore_session

SpecRestore == Init /\ [][NextRestore]_vars

\* ------------------------------------------------------------------ claims
TurnOver == pc = "done"
PlaceholderCreated == ctx.placeholder_message_id # 0
Ran(n) == n \in Range(visited)
\* the node whose body ran right after the body of n (n itself while n is the last)
RanAfter(n) ==
    { visited[i + 1] : i \in { j \in 1..(Len(visited) - 1) : visited[j] = n } }
Tokens == SelectSeq(client, LAMBDA e : e.type = "document_token")
StoredDecision == Get(state.routing_decision)
StoredIntent == Get(state.intent).intent_type

C2_PlaceholderSettled ==
    TurnOver /\ PlaceholderCreated => placeholder \in {"completed", "deleted"}

\* C3: a turn cancelled after the placeholder was created ends with the placeholder
\* deleted and the agent status reset.
C3_CancelDeletesPlaceholder ==
    TurnOver /\ outcome = "cancelled" /\ PlaceholderCreated /\ "idle" \in status_writes
        => placeholder = "deleted" /\ agent_status = "idle"

\* C4: when the router ran for a new_topic intent in a session without roadmap and
\* without documents, the stored decision came from the slow path, has action plan
\* and mode roadmap_generate, and its reasoning is the original one behind a prefix.
C4_FirstTopicOverride ==
    ( Ran("route_agent") /\ StoredIntent = "new_topic"
      /\ ~IsSet(state.current_roadmap) /\ state.recent_docs = << >> )
        => /\ StoredDecision.method = "llm"
           /\ StoredDecision.action = "plan"
           /\ StoredDecision.mode = "roadmap_generate"
           /\ Len(StoredDecision.reasoning) = 2
           /\ Head(StoredDecision.reasoning) = "first_topic_prefix"

\* a first topic whose model call failed: the fallback decision was overridden
C4_Witness ==
    /\ Ran("route_agent") /\ StoredIntent = "new_topic"
    /\ ~IsSet(state.current_roadmap) /\ state.recent_docs = << >>
    /\ StoredDecision.reasoning = << "first_topic_prefix", "fallback_default" >>
    /\ StoredDecision.action = "plan"

C6_DispatchAfterIntent ==
    /\ \A n \in RanAfter("intent_agent") :
          /\ n = "chitchat_agent" <=> StoredIntent = "chitchat"
          /\ n = "navigator_agent" <=> StoredIntent = "navigate"
          /\ n = "route_agent" <=> StoredIntent \notin {"chitchat", "navigate"}
    /\ Ran("route_agent") => StoredIntent \notin {"chitchat", "navigate"}
    /\ route_by_intent([ state EXCEPT !.intent = NoneVal ]) = "route_agent"

\* the navigator ran right after the intent node
C6_Witness ==
    /\ visited = << "input_normalizer", "intent_agent", "navigator_agent" >>
    /\ StoredIntent = "navigate"

\* C7: the node that runs after the router is the navigator exactly for action
\* navigate, the planner exactly for plan, the content generator for every other
\* action or a missing decision.
C7_DispatchAfterRouter ==
    /\ \A n \in RanAfter("route_agent") :
          /\ n = "navigator_agent" <=> StoredDecision.action = "navigate"
          /\ n = "planner_agent" <=> StoredDecision.action = "plan"
          /\ n = "content_agent" <=> StoredDecision.action \notin {"navigate", "plan"}
    /\ route_by_decision([ state EXCEPT !.routing_decision = NoneVal ]) = "content_agent"

\* the content generator ran after the router stored an action outside the known set
C7_Witness ==
    /\ "content_agent" \in RanAfter("route_agent")
    /\ StoredDecision.action = "other"

\* the planner performed a modification: mode roadmap_modify with a current roadmap
PlannerModified == StoredDecision.mode = "roadmap_modify" /\ IsSet(state.current_roadmap)

C9_AfterNavigator ==
    ( Ran("navigator_agent") /\ node # "navigator_agent" )
        => LET target == Get(state.navigation_target)
           IN  /\ target.type \in {"document", "not_found"}
               /\ target.type = "document"
                    => /\ target.document_id \in DocIds
                       /\ node = "END" /\ ~Ran("content_agent")
               /\ target.type = "not_found"
                    => /\ target.document_id = 0
                       /\ node = "content_agent"
                            \/ RanAfter("navigator_agent") = {"content_agent"}

\* a turn that navigated to a stored document and ended
C9_Witness ==
    /\ TurnOver /\ outcome = "ok" /\ Ran("navigator_agent")
    /\ Get(state.navigation_target).type = "document"
    /\ Get(state.navigation_target).document_id \in DocIds
    /\ ~Ran("content_agent")

\* C10: the document_token events pushed are, in order, chunks that a model call
\* inside content_agent streamed, and so is the accumulated content; the legacy
\* endpoint forwards under the same filter.
C10_TokenFilter ==
    /\ \A i \in 1..Len(Tokens) :
          /\ Tokens[i].data[1][1] = "content_agent"
          /\ Tokens[i].data[1] \in Range(llm_stream)
    /\ \A i \in 1..Len(ctx.accumulated_content) :
          /\ ctx.accumulated_content[i][1] = "content_agent"
          /\ ctx.accumulated_content[i] \in Range(llm_stream)
    /\ \A i \in 1..Len(legacy_tokens) : legacy_tokens[i][1] = "content_agent"

\* a turn in which the router's model call and the generation call both streamed and
\* only the generation chunk was forwarded
C10_Witness ==
    /\ << "route_agent", 1 >> \in Range(llm_stream)
    /\ << "content_agent", 1 >> \in Range(llm_stream)
    /\ Len(Tokens) = 1 /\ Tokens[1].data = << << "content_agent", 1 >> >>
    /\ ctx.accumulated_content = << << "content_agent", 1 >> >>

\* chunks carried by the document_token events, in push order
TokenChunks == [ i \in 1..Len(Tokens) |-> Tokens[i].data[1] ]
IsPrefix(a, b) == Len(a) <= Len(b) /\ a = SubSeq(b, 1, Len(a))
\* the content generator returned a document in this turn
Generated ==
    /\ Ran("content_agent") /\ state.error = "None"
    /\ ~(node = "content_agent" /\ phase = "running")
DocumentEvents == SelectSeq(client, LAMBDA e : e.type = "document")
ErrorEvents == SelectSeq(client, LAMBDA e : e.type = "error")
DoneEvents == SelectSeq(client, LAMBDA e : e.type = "done")
StoredDocument(id) == CHOOSE d \in Range(documents) : d.id = id

C12_GenerationFailureReported ==
    ( TurnOver /\ Ran("content_agent") /\ state.error # "None" /\ faults = 0 )
        => Len(ErrorEvents) > 0 /\ agent_status = "idle"

EnrichmentEvents == { i \in 1..Len(client) : client[i].type \in {"entities", "follow_ups"} }

C14_AnyCompletionOrder ==
    ( Ran("post_process") /\ \A c \in EnrichmentCalls : IsSet(pp_calls[c]) )
        => /\ Get(state.document).entities = Get(pp_calls["entities"]).result
           /\ state.follow_up_questions = Get(pp_calls["follow_ups"]).result
           /\ Get(state.document).milestone_id = Get(pp_calls["milestone"]).result

\* the calls returned in the reverse of their argument order, with different results
C14_Witness ==
    /\ Ran("post_process")
    /\ \A c \in EnrichmentCalls : IsSet(pp_calls[c])
    /\ Get(pp_calls["milestone"]).rank = 1 /\ Get(pp_calls["follow_ups"]).rank = 2
    /\ Get(pp_calls["entities"]).rank = 3
    /\ Get(pp_calls["entities"]).result /\ ~Get(pp_calls["follow_ups"]).result
    /\ Get(state.document).entities /\ ~state.follow_up_questions

\* C15: a 'document' event is only sent for a document already committed with the
\* content the event carries, and every 'entities' or 'follow_ups' event comes after
\* a 'document' event of the same turn with the same document id.
C15_DeliveryOrder ==
    /\ \A i \in 1..Len(DocumentEvents) :
          /\ DocumentEvents[i].data[1] \in DocIds
          /\ StoredDocument(DocumentEvents[i].data[1]).content = DocumentEvents[i].data[2]
    /\ \A i \in EnrichmentEvents :
          \E j \in 1..(i - 1) :
             /\ client[j].type = "document"
             /\ client[j].data[1] = client[i].data[1]
             /\ client[j].data[1] \in DocIds

\* a finished turn that sent the document and then both enrichment events
C15_Witness ==
    /\ TurnOver /\ outcome = "ok" /\ Len(DocumentEvents) = 1
    /\ Cardinality(EnrichmentEvents) = 2
    /\ enriched = {"entities", "follow_ups"}

\* C16: a turn that has finalized read only values its own graph run wrote.
C16_TurnStateIsolated ==
    \A c \in Connections :
       runs[c].pc = "done"
          => \A k \in ResultKeys :
                IsSet(runs[c].result_state[k]) => Get(runs[c].result_state[k]) = runs[c].turn

ContentNodeEnded == \E i \in 1..Len(client) : client[i] = Event("node_end", << "content_agent" >>)

\* C17: a GeneratorExit raised during generation leaves content_agent_node as an
\* exception (the run is cancelled at the node, no node result is produced: no
\* content_agent end event, state untouched); any other exception is caught: the
\* node returns a result with the error slot set and an apology message appended,
\* and nothing is raised.
C17_InterruptionVersusFailure ==
    /\ generation = "GeneratorExit"
          => /\ outcome = "cancelled" /\ pc \in {"cleanup", "done"}
             /\ node = "content_agent" /\ phase = "running"
             /\ ~ContentNodeEnded
             /\ state.error = "None" /\ state.messages = << >>
    /\ generation \in {"Exception", "Exception_no_message"}
          => /\ state.error # "None"
             /\ state.messages = << "apology" >>
             /\ ~(node = "content_agent" /\ phase = "running")
             /\ faults = 0 => outcome \notin {"cancelled", "error"}

\* an interrupted generation that cancelled the turn with no fault of the environment
C17_Witness ==
    /\ generation = "GeneratorExit" /\ pc = "done" /\ outcome = "cancelled" /\ faults = 0

\* the snapshots of document d, oldest first
SnapshotsOf(d) == SelectSeq(doc_versions, LAMBDA v : v.document_id = d)
\* the calls that changed document d
CallsOn(d, op) ==
    { i \in 1..Len(doc_calls) :
        doc_calls[i].op = op /\ doc_calls[i].document_id = d /\ doc_calls[i].result # "not_found" }

RoadmapsOf(session_id) == { i \in DOMAIN roadmaps : roadmaps[i].session_id = session_id }
Newest(ids) == CHOOSE i \in ids : \A k \in ids : k <= i

\* C19: every session that has roadmaps has exactly one active roadmap, the one
\* created last, and get_active_roadmap returns it.
C19_OneActiveRoadmap ==
    \A session_id \in SessionIds :
       RoadmapsOf(session_id) # { }
          => /\ ActiveRoadmaps(roadmaps, session_id) = { Newest(RoadmapsOf(session_id)) }
             /\ get_active_roadmap(roadmaps, session_id) = "Roadmap"

Contiguous(ms) == ms = Renumbered(ms)

\* C20: the roadmap a turn produced has milestone ids 0..N-1 in list order, both as
\* sent to the client and as stored for the session.
C20_MilestoneIdsContiguous ==
    planning.pc = "done" => Contiguous(planning.sent) /\ Contiguous(planning.stored)

\* the active roadmap of session s1 when the planner turn began, and now
ActiveBefore == ActiveRoadmapOf(plan.before, "s1")
ActiveNow == ActiveRoadmapOf(roadmaps, "s1")
PlannerTurnDone == plan.pc = "done"
ModelCallsFailed == ~IsSet(plan.structured) /\ ~IsSet(plan.fallback)

\* C21: a finished turn that stored a roadmap stored version 1 for the session's
\* first roadmap, and, when it modified the roadmap of a session that had an active
\* one, the active roadmap's version + 1 with that roadmap as parent.
C21_RoadmapVersioning ==
    ( PlannerTurnDone /\ roadmaps # plan.before )
        => /\ ~IsSet(ActiveBefore) => Get(ActiveNow).version = 1
           /\ ( plan.mode = "roadmap_modify" /\ IsSet(ActiveBefore) )
                 => /\ Get(ActiveNow).version = Get(ActiveBefore).version + 1
                    /\ roadmaps[Get(ActiveNow).id].parent_roadmap_id = Get(ActiveBefore).id

\* C22: a finished modification turn whose model call failed yields the session's
\* current roadmap unchanged, surfaces an error, and leaves the roadmaps table as
\* it was.
C22_ModifyFailureNonCorrupting ==
    ( PlannerTurnDone /\ plan.mode = "roadmap_modify" /\ IsSet(ActiveBefore)
      /\ ModelCallsFailed )
        => /\ plan.roadmap = ActiveBefore
           /\ "error" \in Range(plan.events)
           /\ roadmaps = plan.before

\* C23: after the planner node ran in generate mode the state holds a roadmap and
\* no error: the structured reply, else the fallback's, else the placeholder with
\* goal = target and the single milestone 0.
C23_GenerationAlwaysYieldsRoadmap ==
    ( plan.pc # "idle" /\ ~(plan.mode = "roadmap_modify" /\ IsSet(plan.current_roadmap)) )
        => /\ IsSet(plan.roadmap)
           /\ plan.error = "None"
           /\ IsSet(plan.structured) => Get(plan.roadmap).goal = Get(plan.structured).goal
           /\ ( ~IsSet(plan.structured) /\ IsSet(plan.fallback) )
                 => /\ Get(plan.roadmap).goal = Get(plan.fallback).goal
                    /\ Len(Get(plan.roadmap).milestones) = Len(Get(plan.fallback).milestones)
           /\ ModelCallsFailed
                 => /\ Get(plan.roadmap).goal = PlannerTarget
                    /\ Get(plan.roadmap).milestones = << 0 >>
                    /\ Get(plan.roadmap).version = 1

\* both calls failed in generate mode and the turn sent the placeholder roadmap
C23_Witness ==
    /\ PlannerTurnDone /\ plan.mode = "roadmap_generate" /\ ModelCallsFailed
    /\ Get(plan.roadmap).goal = PlannerTarget
    /\ plan.events = << "roadmap", "done" >>

EntitiesNamed(session_id, name) ==
    { i \in 1..Len(entity_rows) : entity_rows[i] = [ session_id |-> session_id, name |-> name ] }
LinksOf(entity_id, document_id) ==
    { i \in 1..Len(entity_links) : entity_links[i] = Link(entity_id, document_id) }

\* C24: no call of upsert_entities ends in an error, whatever its list repeats; and
\* after the calls each (session, name) that was passed has exactly one entity row,
\* with exactly one link row to each document it was passed with.
C24_UpsertIdempotent ==
    \A c \in 1..Len(entity_calls) :
       /\ entity_calls[c].result = "None"
       /\ \A n \in Range(entity_calls[c].entity_names) :
             /\ Cardinality(EntitiesNamed(entity_calls[c].session_id, n)) = 1
             /\ \A e \in EntitiesNamed(entity_calls[c].session_id, n) :
                   Cardinality(LinksOf(e, entity_calls[c].document_id)) = 1

\* the call recorded is a call of classify, direct or from the chat branch of the node
ClassifyCalled == classified.pc = "done" /\ classified.source \in {"classify", "chat"}
\* the Tier-1 patterns found in the message of the call
Tier1Matches == StrongHits(classified.message)
\* the Tier-2 keywords contained in the message of the call
Tier2Matches == FuzzyHits(classified.message)

\* C25: for every message matching at least one Tier-1 regex, classify returns the
\* intent type of the first matching pattern in table order with confidence exactly
\* 1.0 and method strong_rule, identically whether or not an LLM handle is
\* configured, and without invoking the LLM.
C25_StrongRuleFirst ==
    (ClassifyCalled /\ Tier1Matches # { }) =>
        \A i \in Tier1Matches :
            (\A k \in Tier1Matches : i <= k) =>
                /\ ~classified.raised
                /\ ~classified.llm_invoked
                /\ classified.intent =
                     Some(Intent(STRONG_PATTERNS[i].intent_type, 100, "strong_rule",
                                 _extract_target(classified.message)))

C25_Witness ==
    /\ ClassifyCalled
    /\ classified.llm /\ classified.use_llm
    /\ classified.message = << "roadmap", "wo_xiang_xue" >>
    /\ classified.reply.intent_type = Some("chitchat")
    /\ Get(classified.intent).intent_type = "new_topic"
    /\ Get(classified.intent).confidence = 100

\* C26: classify consults the tiers strictly in order: the keyword tier is reached
\* only when no Tier-1 pattern matches and returns confidence 0.8 with method
\* fuzzy_rule without invoking the LLM; the LLM is invoked only when neither rule
\* tier matches, an LLM handle is present and the caller has not disabled it, and a
\* successful LLM classification returns confidence 0.85 with method llm; with no LLM
\* available the result is the low-confidence default (question, 0.5).
C26_TierOrder ==
    ClassifyCalled =>
        /\ ~classified.raised /\ IsSet(classified.intent)
        /\ Get(classified.intent).method = "fuzzy_rule" => Tier1Matches = { }
        /\ (Tier1Matches = { } /\ Tier2Matches # { }) =>
              /\ ~classified.llm_invoked
              /\ Get(classified.intent).confidence = 80
              /\ Get(classified.intent).method = "fuzzy_rule"
              /\ \E i \in Tier2Matches :
                    /\ \A k \in Tier2Matches : i <= k
                    /\ Get(classified.intent).intent_type = FUZZY_PATTERNS[i].intent
        /\ classified.llm_invoked =>
              /\ Tier1Matches = { } /\ Tier2Matches = { }
              /\ classified.llm /\ classified.use_llm
        /\ (classified.llm_invoked /\ classified.reply.kind = "json_object") =>
              /\ Get(classified.intent).confidence = 85
              /\ Get(classified.intent).method = "llm"
        /\ (Tier1Matches = { } /\ Tier2Matches = { } /\ ~classified.llm) =>
              /\ ~classified.llm_invoked
              /\ Get(classified.intent).intent_type = "question"
              /\ Get(classified.intent).confidence = 50

C26_Witness ==
    /\ ClassifyCalled
    /\ classified.message = << "redis" >>
    /\ classified.llm /\ classified.use_llm /\ classified.llm_invoked
    /\ classified.reply.kind = "json_object"
    /\ classified.reply.intent_type = Some("new_topic")
    /\ Get(classified.intent).intent_type = "new_topic"
    /\ Get(classified.intent).method = "llm"

\* the reply of the completion service is an error, or content that gives no JSON
\* object
ReplyFails == classified.reply.kind \in {"error", "empty", "text", "json_scalar", "json_array"}

\* C27: if the Tier-3 LLM call fails or its reply cannot be parsed into a JSON object
\* (network error, no JSON, a JSON value that is not an object), classify does not
\* raise; it returns intent type question with low confidence (0.5) and a target
\* derived from the message, and the turn continues without any error being surfaced
\* to the user.
C27_LocalRecovery ==
    (ClassifyCalled /\ classified.llm_invoked /\ ReplyFails) =>
        /\ ~classified.raised
        /\ IsSet(classified.intent)
        /\ Get(classified.intent).intent_type = "question"
        /\ Get(classified.intent).confidence = 50
        /\ Get(classified.intent).target = _extract_target(classified.message)

C27_Witness ==
    /\ classified.pc = "done" /\ classified.source = "chat"
    /\ classified.llm_invoked
    /\ classified.reply.kind = "json_array"
    /\ classified.message = << "redis", "hello" >>
    /\ ~classified.raised
    /\ Get(classified.intent).method = "llm_fallback"

\* C28: classifying the empty string does not crash: it matches no Tier-1 rule,
\* falls through to Tiers 2-4, and the result returned is a valid low-confidence
\* intent (an intent type of the closed set with a confidence below the rule and LLM
\* confidences), whatever the LLM availability and reply.
C28_EmptyMessage ==
    (ClassifyCalled /\ classified.message = << >>) =>
        /\ ~classified.raised
        /\ Tier1Matches = { }
        /\ IsSet(classified.intent)
        /\ Get(classified.intent).intent_type \in IntentTypes
        /\ Get(classified.intent).confidence < 80

\* C29: the intent type stored by the intent node is always one of new_topic,
\* follow_up, comparison, question, question_practical, optimize_content, navigate,
\* plan, chitchat, for every input source (chat, comment, entity, follow_up with any
\* client-supplied intent hint, entry) and for every reply the LLM classifier may give.
C29_ClosedIntentSet ==
    (classified.pc = "done" /\ classified.source \in InputSources) =>
        /\ IsSet(classified.intent)
        /\ Get(classified.intent).intent_type \in IntentTypes

\* C30: every routing decision stored by route_agent_node, from the fast-path table,
\* from the LLM path after the overrides, or from the fallback rule, has action in
\* {generate_new, update_doc, navigate, plan}, mode in {standard, roadmap_learning,
\* roadmap_generate, roadmap_modify, explain_selection, comparison}, and method rule
\* or llm.
C30_ClosedDecisionSets ==
    IsSet(state.routing_decision) =>
        /\ Get(state.routing_decision).action \in Actions
        /\ Get(state.routing_decision).mode \in Modes
        /\ Get(state.routing_decision).method \in {"rule", "llm"}

\* route_agent_node has just returned in this turn
RouterReturned == node = "route_agent" /\ phase = "end" /\ IsSet(state.routing_decision)
\* the decision is the given action and mode, taken from the table
RuleDecision(action, mode) ==
    /\ Get(state.routing_decision).action = action
    /\ Get(state.routing_decision).mode = mode
    /\ Get(state.routing_decision).method = "rule"

\* C31: for the unambiguous cases the router returns the table decision immediately,
\* with method rule and without any LLM call: new_topic in a session without a
\* roadmap that already has documents gives generate_new/standard; follow_up gives
\* update_doc when there is a current document and generate_new/standard when there
\* is none; comparison gives generate_new/comparison; optimize_content gives
\* generate_new/explain_selection; every other intent type goes to the slow path.
C31_FastPath ==
    RouterReturned =>
        LET it == IntentTypeOf(state)
        IN  /\ (it = "new_topic" /\ ~IsSet(state.current_roadmap) /\ state.recent_docs # << >>)
                  => RuleDecision("generate_new", "standard")
            /\ (it = "follow_up" /\ state.current_doc_id # 0)
                  => /\ Get(state.routing_decision).action = "update_doc"
                     /\ Get(state.routing_decision).method = "rule"
            /\ (it = "follow_up" /\ state.current_doc_id = 0)
                  => RuleDecision("generate_new", "standard")
            /\ it = "comparison" => RuleDecision("generate_new", "comparison")
            /\ it = "optimize_content" => RuleDecision("generate_new", "explain_selection")
            /\ it \notin {"new_topic", "follow_up", "comparison", "optimize_content"}
                  => Get(state.routing_decision).method = "llm"

\* the decision route_agent_node stores for the current state when the slow-path
\* model call, or the validation of its output, fails
DecisionOnFailure == route_agent_node(state, NoneVal)
\* the reasoning of a decision records that the fallback rule produced it
RecordsFallback(d) ==
    d.reasoning[Len(d.reasoning)] \in {"fallback_plan", "fallback_default"}
\* the decision is what the fallback rule gives for the intent and the roadmap
IsFallbackDecision(d) ==
    IF IntentTypeOf(state) = "plan" /\ ~IsSet(state.current_roadmap)
      THEN d.action = "plan" /\ d.mode = "roadmap_generate"
      ELSE /\ d.action = "generate_new"
           /\ d.mode = IF IsSet(state.current_roadmap) THEN "roadmap_learning" ELSE "standard"
\* the router is about to run and the state sends it to the slow path
SlowPathAhead ==
    /\ Running("route_agent")
    /\ ~IsSet(try_fast_route(IntentTypeOf(state), state.current_doc_id,
                             state.current_roadmap, state.recent_docs))
\* the router has just returned a decision made by the fallback rule
FallbackStored == RouterReturned /\ RecordsFallback(StoredDecision)
FirstTopic == IsFirstTopic(IntentTypeOf(state), state.current_roadmap, state.recent_docs)

\* C32 as stated: if the slow-path LLM call or the validation of its structured
\* output fails, route_agent_node does not raise and the decision comes from the
\* fallback rule (plan/roadmap_generate when the intent is plan and there is no
\* roadmap, otherwise generate_new with mode roadmap_learning when a roadmap exists
\* and standard when none exists) with a reasoning string that records that a
\* fallback occurred.
C32_FallbackDecisionAsStated ==
    /\ SlowPathAhead =>
          /\ IsFallbackDecision(DecisionOnFailure)
          /\ RecordsFallback(DecisionOnFailure)
    /\ FallbackStored =>
          /\ IsFallbackDecision(StoredDecision)
          /\ state.error = "None"

\* C32: if the slow-path LLM call or the validation of its structured output fails,
\* route_agent_node does not raise and the decision comes from the fallback rule
\* (plan/roadmap_generate when the intent is plan and there is no roadmap, otherwise
\* generate_new with mode roadmap_learning when a roadmap exists and standard when
\* none exists) with a reasoning string that records that a fallback occurred;
\* for a first topic the first-topic override then turns the fallback decision into
\* plan/roadmap_generate.
C32_FallbackDecision ==
    /\ SlowPathAhead =>
          /\ RecordsFallback(DecisionOnFailure)
          /\ DecisionOnFailure.method = "llm"
          /\ IF FirstTopic
               THEN DecisionOnFailure.action = "plan"
                    /\ DecisionOnFailure.mode = "roadmap_generate"
               ELSE IsFallbackDecision(DecisionOnFailure)
    /\ FallbackStored =>
          /\ state.error = "None"
          /\ IF FirstTopic
               THEN StoredDecision.action = "plan" /\ StoredDecision.mode = "roadmap_generate"
               ELSE IsFallbackDecision(StoredDecision)

\* the model call failed in a session with a roadmap: generate_new in roadmap_learning
C32_Witness ==
    /\ FallbackStored
    /\ IsSet(state.current_roadmap)
    /\ StoredDecision.action = "generate_new"
    /\ StoredDecision.mode = "roadmap_learning"
    /\ StoredDecision.reasoning = << "fallback_default" >>

\* an entity-sourced turn has stored its intent
Clicked == entity_click.pc = "done"
\* the documents linked to the clicked entity of the turn's session, in the tables
\* the turn read
LinkedDocuments ==
    { l.document_id : l \in { m \in Range(entity_click.links) :
        \E e \in 1..Len(entity_click.entities) :
            /\ m.entity_id = e
            /\ entity_click.entities[e].session_id = entity_click.session_id
            /\ entity_click.entities[e].name = entity_click.entity_name } }

\* C33: for an entity-sourced turn the intent is navigate carrying the linked
\* document id when the entity has an 'explains'-linked document in the session, and
\* new_topic targeting the entity name otherwise; a failing entity lookup is treated
\* as 'no document' (the intent becomes new_topic) and never fails the turn.
C33_EntityClickIntent ==
    Clicked =>
        /\ ~entity_click.raised
        /\ IsSet(entity_click.intent)
        /\ Get(entity_click.intent).target = << entity_click.entity_name >>
        /\ IF entity_click.lookup = "returned" /\ LinkedDocuments # { }
             THEN /\ Get(entity_click.intent).intent_type = "navigate"
                  /\ Get(entity_click.intent).target_doc_id \in LinkedDocuments
             ELSE Get(entity_click.intent).intent_type = "new_topic"

\* the entity has a document in each session: the click navigates to the document
\* of its own session
C33_Witness ==
    /\ Clicked /\ entity_click.lookup = "returned"
    /\ entity_click.session_id = "s1" /\ entity_click.entity_name = "a"
    /\ \E e \in 1..Len(entity_click.entities) :
          /\ entity_click.entities[e] = [ session_id |-> "s2", name |-> "a" ]
          /\ Link(e, 1) \in Range(entity_click.links)
    /\ LinkedDocuments = {2}
    /\ Get(entity_click.intent).intent_type = "navigate"
    /\ Get(entity_click.intent).target_doc_id = 2

\* _resolve_doc_topic has returned
Resolved == explain.pc = "done"
\* the available documents whose id is the anchor of the comment
Anchored == { d \in Range(explain.available_docs) : d.id = explain.document_id }
\* the resolved topic is the first hit of the chain: anchored available document,
\* current document's topic, intent target, prefix of the raw message
FirstHitOfChain ==
    IF explain.document_id # 0 /\ Anchored # { }
      THEN \E d \in Anchored : explain.doc_topic = d.topic
    ELSE IF IsSet(explain.document) /\ Get(explain.document).topic # ""
      THEN explain.doc_topic = Get(explain.document).topic
    ELSE IF explain.target # "" THEN explain.doc_topic = explain.target
    ELSE explain.doc_topic = IF explain.raw_message = "long_comment" THEN "long_comment_prefix"
                             ELSE explain.raw_message
\* the resolved topic is the topic field of a document of the session and is neither
\* the comment nor taken from the selected text
FromDocumentTopic ==
    /\ \E d \in Range(explain.docs) : explain.doc_topic = d.topic
    /\ explain.doc_topic \notin {"selected_content", "selection", "long_selection",
                                  "long_selection_prefix", "comment", "long_comment",
                                  "long_comment_prefix"}

\* C34 as stated: for a comment-sourced turn the document topic used for generation
\* is resolved by the chain, first hit wins (the title of the available document whose
\* id equals the comment's anchor document id, else the current document's topic, else
\* the intent target, else a prefix of the raw message) so that whenever the session
\* has a current document the resolved topic comes from a document's topic field and
\* never from the comment text or the selected text.
C34_TopicResolutionAsStated ==
    Resolved =>
        /\ FirstHitOfChain
        /\ (explain.via = "turn" /\ explain.docs # << >>) => FromDocumentTopic

\* C34: for a comment-sourced turn the document topic used for generation is resolved
\* by the chain, first hit wins (the title of the available document whose id equals
\* the comment's anchor document id, else the current document's topic, else the
\* intent target, else a prefix of the raw message) so that whenever the turn state
\* carries a current document with a non-empty topic the resolved topic comes from a
\* document's topic field and never from the comment text or the selected text.
C34_TopicResolution ==
    Resolved =>
        /\ FirstHitOfChain
        /\ ( explain.via = "turn" /\ IsSet(explain.document)
             /\ Get(explain.document).topic # "" ) => FromDocumentTopic

\* a comment on the older of two documents, with text selected: the topic is the
\* current document's
C34_Witness ==
    /\ Resolved /\ explain.via = "turn"
    /\ Len(explain.docs) = 2 /\ explain.docs[1].topic = "python" /\ explain.docs[2].topic = "redis"
    /\ explain.document_id = 1
    /\ explain.selected_text = "selection" /\ explain.raw_message = "comment"
    /\ explain.doc_topic = "python"

\* the three strategies' texts, in their order: the content itself, the interior of
\* the first fenced code block, the first bracket-balanced substring
ParserReturned == json_call.pc = "done"
Candidates(content) ==
    << Some(content), _extract_from_code_block(content), _extract_json_substring(content) >>
\* a parse attempt: trim, repair the trailing commas, parse
Attempt(candidate) == json_loads(_fix_trailing_commas(strip(candidate)))
StrategyParses(content, i) ==
    IsSet(Candidates(content)[i]) /\ Attempt(Get(Candidates(content)[i])).ok
\* the same, for the strategies whose text parses to a value other than null
StrategyYields(content, i) ==
    StrategyParses(content, i) /\ Attempt(Get(Candidates(content)[i])).value # << "null" >>
FirstOf(strategies) == CHOOSE i \in strategies : \A j \in strategies : i <= j

\* C35: parse_llm_json_response tries the direct parse of the trimmed text, the
\* interior of the first fenced code block and the first bracket-balanced substring,
\* in this order and each after the trailing-comma repair, and returns the value of
\* the first strategy that parses; it raises ValueError only when the input is empty
\* or every strategy fails; a fenced block of JSON with a trailing comma yields the
\* value of the repaired bare JSON.
C35_ExtractorCascade ==
    ParserReturned =>
        LET content == json_call.content
            result == json_call.result
            parsing == { i \in 1..3 : StrategyParses(content, i) }
        IN  /\ result.raised <=> (content = << >> \/ parsing = { })
            /\ ~result.raised =>
                  result.value = Attempt(Get(Candidates(content)[FirstOf(parsing)])).value
            /\ \A b \in Bodies :
                  ( /\ content = Fenced(b)
                    /\ _fix_trailing_commas(b) # b
                    /\ json_loads(_fix_trailing_commas(b)).ok )
                  => ( ~result.raised
                       /\ result.value = json_loads(_fix_trailing_commas(b)).value )

\* the cascade as the code runs it: a strategy whose text is the JSON null counts as
\* failed
C35_CascadeOfValues ==
    ParserReturned =>
        LET content == json_call.content
            result == json_call.result
            yielding == { i \in 1..3 : StrategyYields(content, i) }
        IN  /\ result.raised <=> (content = << >> \/ yielding = { })
            /\ ~result.raised =>
                  result.value = Attempt(Get(Candidates(content)[FirstOf(yielding)])).value
            /\ \A b \in Bodies :
                  ( /\ content = Fenced(b)
                    /\ _fix_trailing_commas(b) # b
                    /\ json_loads(_fix_trailing_commas(b)).ok )
                  => ( ~result.raised /\ result.strategy = "code_block"
                       /\ result.value = json_loads(_fix_trailing_commas(b)).value )

\* the node bodies that have returned in this turn's run, and the run's position
NodeReturned == pc = "process_events" /\ phase = "end"
GraphEnded == node = "END"
VisitedOnce == \A i, j \in 1..Len(visited) : visited[i] = visited[j] => i = j
LastVisited(n) == \A i \in 1..Len(visited) : visited[i] = n => i = Len(visited)

\* C36: a turn's graph run terminates: while every node returns, the run visits each
\* node at most once (so the router and the planner are never re-entered) and makes
\* at most six node executions, the node that follows a returned node being a node
\* not yet visited or the end; post_process runs right after content_agent and the
\* run ends after it; the run ends right after chitchat_agent.
C36_GraphRunTerminates ==
    /\ VisitedOnce
    /\ Len(visited) <= 6
    /\ NodeReturned => NextNode(node, state) \notin Range(visited)
    /\ GraphEnded => Len(visited) \in 1..6
    /\ \A i \in 1..Len(visited) :
          visited[i] = "content_agent" /\ i < Len(visited) => visited[i + 1] = "post_process"
    /\ (NodeReturned /\ node = "content_agent") => NextNode(node, state) = "post_process"
    /\ LastVisited("post_process") /\ LastVisited("chitchat_agent")
    /\ (NodeReturned /\ node \in {"post_process", "chitchat_agent"})
          => NextNode(node, state) = "END"

\* a run of six nodes that has ended: router, planner, generator and post-processing
C36_Witness ==
    /\ GraphEnded
    /\ visited = << "input_normalizer", "intent_agent", "route_agent", "planner_agent",
                    "content_agent", "post_process" >>

\* the generation of this turn failed with an exception that content_agent_node
\* catches
GenerationFailed(g) == g \in {"Exception", "Exception_no_message"}

\* C37: in a turn whose content generation fails with an ordinary failure no document
\* is created, no stored document has its content or version changed, and no
\* 'document' event is sent to the client.
C37_FailedGenerationChangesNoDocument ==
    [][ GenerationFailed(generation') =>
          ( /\ documents' = documents
            /\ \A i \in 1..Len(client') : client'[i].type # "document" ) ]_vars

\* the same for the turns that start without a current document
C37_WithoutCurrentDocument ==
    [][ (GenerationFailed(generation') /\ ~IsSet(state'.document)) =>
          ( /\ documents' = documents
            /\ \A i \in 1..Len(client') : client'[i].type # "document" ) ]_vars

\* the terminal events pushed in this turn, by position, and whether the turn failed:
\* an exception left the workflow or a node stored an error
TerminalEvents == { i \in 1..Len(client) : client[i].type \in {"done", "error"} }
TurnFailed == outcome = "error" \/ state.error # "None"

\* C38: every turn that is not cancelled, on a connection that stays open, is over
\* with exactly one terminal event, pushed last: 'done' when the turn succeeded,
\* 'error' when it failed.
C38_OneTerminalEvent ==
    ( TurnOver /\ outcome # "cancelled" /\ ws_open )
        => /\ TerminalEvents = {Len(client)}
           /\ client[Len(client)].type = IF TurnFailed THEN "error" ELSE "done"

\* the same for the turns whose stored error, if any, is a non-empty message
C38_WithErrorMessage ==
    ( TurnOver /\ outcome # "cancelled" /\ ws_open /\ state.error # "" )
        => /\ TerminalEvents = {Len(client)}
           /\ client[Len(client)].type = IF TurnFailed THEN "error" ELSE "done"

\* the navigator resolved a document, and the session that document belongs to
Navigated ==
    /\ navigation.pc = "done" /\ IsSet(navigation.navigation_target)
    /\ Get(navigation.navigation_target).type = "document"
NavigatedSession == navigation.table[Get(navigation.navigation_target).document_id].session_id

\* C39: whenever the navigator resolves a document, by the target document id of the
\* routing decision or of the intent or by topic search, the document belongs to the
\* session of the turn.
C39_NavigationInsideSession ==
    Navigated => NavigatedSession = navigation.session_id

\* the same for the navigations that search by topic or take the intent's document
C39_WithoutDecisionTarget ==
    ( Navigated /\ Get(navigation.routing_decision).target_doc_id = 0 )
        => NavigatedSession = navigation.session_id

\* the turn generated a document and persisted it: the generator returned it, the
\* write committed and the 'document' event went out
GeneratedAndPersisted ==
    /\ TurnOver /\ outcome = "ok" /\ Generated
    /\ ctx.doc_id \in DocIds /\ Len(DocumentEvents) = 1

\* C40: after a turn that generated and persisted a document, the session has the
\* document card of this turn, recording the completed document and linked to it,
\* also when a session restore ran while the generation was in flight.
C40_CardSurvivesRestore ==
    GeneratedAndPersisted => placeholder = "completed"

====
